---- MODULE Spec2Model ----
(***************************************************************************)
(* Registry compilation pipeline of mcp-registry:                          *)
(*   scripts/registry.py  cmd_compile                                      *)
(*   scripts/compiler.py  compile_registry, check_conflicts,               *)
(*                        load_private_server                              *)
(*   scripts/fetcher.py   fetch_from_public_registry, fetch_server_list,   *)
(*                        fetch_server_version, _parse_author_pattern      *)
(* One run of the compile command is one behaviour.  The registry          *)
(* configuration, the private descriptor files and the remote registries'  *)
(* responses are the environment: each is read at the step where the code  *)
(* reads it.                                                               *)
(***************************************************************************)
EXTENDS Integers, Sequences, FiniteSets, TLC

----------------------------------------------------------------------------
(* Bounds of the model *)

\* registries in registry.json; the list is read one element at a time, and
\* where it ends is the environment's choice
MaxRegs == 2
\* paths in registry.json, over all its private registries
MaxPaths == 2
\* records the remote registries list during one run, over all pages
MaxListed == 2
\* listing pages the remote registries serve during one run
MaxPages == 2
\* length of the entry lists check_conflicts is applied to on its own
MaxLen == 3
\* length of the name argument of the add command
MaxNameLen == 4
\* calls of add_to_registry in a row
MaxAdds == 3
MaxSegLen == 3

----------------------------------------------------------------------------
(* Values *)

\* Server names are strings, modelled as sequences of characters so that
\* str.startswith and str.endswith are computed, not assumed.
NameABX == <<"a", "/", "b", "/", "x">>
NameAY == <<"a", "/", "y">>
Names == {NameABX, NameAY}

\* Author wildcard keys "a/*" and "a/b/*".
KeyA == <<"a", "/", "*">>
KeyAB == <<"a", "/", "b", "/", "*">>

PrivateNames == {"private", "internal"}
RemoteNames == {"pub1", "pub2"}
\* nextCursor of a listing response: an opaque token, or a value `if cursor`
\* takes as false (the key absent, null, the empty string), all of them None
\* here; the token of the p-th response of a run is <<"cursor", p>>
None == <<>>
CursorAfter(p) == <<"cursor", p>>

RECURSIVE SeqsUpTo(_, _)
\* all sequences over S of length at most n
SeqsUpTo(S, n) ==
    IF n = 0 THEN {<<>>}
    ELSE LET shorter == SeqsUpTo(S, n - 1)
         IN shorter \cup {Append(s, x) : s \in {t \in shorter : Len(t) = n - 1}, x \in S}

----------------------------------------------------------------------------
(* fetcher.py: ServerEntry, FetchError; compiler.py: CompileError *)

ServerEntry(name, version, data, source) ==
    [name |-> name, version |-> version, data |-> data, source |-> source]

\* data, a JSON object, of a flattened private descriptor / of a wrapped
\* registry record
FlatData(name, version) == [name |-> name, version |-> version]
WrappedData(name, version) == [server |-> [name |-> name, version |-> version]]

\* CompileError(message): the message is kept as the parts it is formatted from
CompileError(kind, what, name, existing, new) ==
    [kind |-> kind, what |-> what, name |-> name, existing |-> existing, new |-> new]

\* f"Failed to load {rel_path}: {e}"
LoadError(rel_path) == CompileError("load", rel_path, <<>>, "", "")
\* str(FetchError) = f"{registry_name}: {message}"
FetchErrorMsg(registry_name) == CompileError("fetch", <<>>, <<>>, registry_name, "")
\* f"Duplicate server '{name}': found in '{existing.source}' and '{server.source}'"
ConflictError(name, existing, new) == CompileError("conflict", <<>>, name, existing, new)

----------------------------------------------------------------------------
(* Python dict[str, ServerEntry], in insertion order: a sequence of entries  *)
(* with pairwise distinct names.                                             *)

DictHas(d, name) == \E m \in 1..Len(d) : d[m].name = name

DictGet(d, name) == d[CHOOSE m \in 1..Len(d) : d[m].name = name]

\* d[entry.name] = entry as a bug would have it: an existing key is removed
\* and the entry is added at the end
DictSet_MovesToEnd(d, entry) ==
    LET keep == {m \in 1..Len(d) : d[m].name # entry.name}
        F[m \in 0..Len(d)] ==
            IF m = 0 THEN <<>>
            ELSE IF m \in keep THEN Append(F[m - 1], d[m]) ELSE F[m - 1]
    IN Append(F[Len(d)], entry)

\* d[entry.name] = entry: an existing key keeps its position, a new key is
\* added at the end
DictSet(d, entry) ==
    IF DictHas(d, entry.name)
    THEN [m \in 1..Len(d) |-> IF d[m].name = entry.name THEN entry ELSE d[m]]
    ELSE Append(d, entry)

----------------------------------------------------------------------------
(* compiler.py: check_conflicts *)

\* the test of line 56, as a bug would write it: any repeated name is an error
IsConflict_AnyRepeat(server, existing) == TRUE

\* line 56: server.source == "private" or existing.source == "private"
IsConflict(server, existing) ==
    server.source = "private" \/ existing.source = "private"

RECURSIVE check_conflicts_loop(_, _, _, _)
\* the loop of lines 52-63 from position n on, with the locals seen and errors
check_conflicts_loop(servers, n, seen, errs) ==
    IF n > Len(servers) THEN errs
    ELSE LET server == servers[n]
         IN IF DictHas(seen, server.name)
            THEN LET existing == DictGet(seen, server.name)
                 IN check_conflicts_loop(
                        servers, n + 1, seen,
                        IF IsConflict(server, existing)
                        THEN Append(errs, ConflictError(server.name, existing.source,
                                                        server.source))
                        ELSE errs)
            ELSE check_conflicts_loop(servers, n + 1, Append(seen, server), errs)

check_conflicts(servers) == check_conflicts_loop(servers, 1, <<>>, <<>>)

----------------------------------------------------------------------------
(* compiler.py: compile_registry, lines 112-117 *)

RECURSIVE dedupe_loop(_, _, _)
dedupe_loop(servers, n, seen) ==
    IF n > Len(servers) THEN seen
    ELSE dedupe_loop(servers, n + 1, DictSet(seen, servers[n]))

\* the deduplication as a bug would write it: the first occurrence is kept
Deduplicate_FirstWins(servers) ==
    LET first == {m \in 1..Len(servers) :
                    \A q \in 1..(m - 1) : servers[q].name # servers[m].name}
        F[m \in 0..Len(servers)] ==
            IF m = 0 THEN <<>>
            ELSE IF m \in first THEN Append(F[m - 1], servers[m]) ELSE F[m - 1]
    IN F[Len(servers)]

\* the deduplication left out: every collected entry is returned
Deduplicate_None(servers) == servers

\* seen = {}; for server in all_servers: seen[server.name] = server;
\* list(seen.values())
Deduplicate(servers) == dedupe_loop(servers, 1, <<>>)

----------------------------------------------------------------------------
(* fetcher.py: _parse_author_pattern and str.startswith *)

\* key.endswith("/*")
EndsWithSlashStar(key) ==
    /\ Len(key) >= 2
    /\ key[Len(key) - 1] = "/"
    /\ key[Len(key)] = "*"

\* key[:-1] when the key ends with "/*", else None (here the empty string,
\* which line 125 treats like None)
parse_author_pattern(key) ==
    IF EndsWithSlashStar(key) THEN SubSeq(key, 1, Len(key) - 1) ELSE <<>>

\* server_name.startswith(prefix)
StartsWith(server_name, prefix) ==
    /\ Len(prefix) <= Len(server_name)
    /\ SubSeq(server_name, 1, Len(prefix)) = prefix

\* lines 123-128: the wildcard keys of the mapping, as (prefix, version), in
\* mapping order
PatternsOf(servers_config) ==
    LET F[m \in 0..Len(servers_config)] ==
            IF m = 0 THEN <<>>
            ELSE LET prefix == parse_author_pattern(servers_config[m].key)
                 IN IF prefix # <<>>
                    THEN Append(F[m - 1], [prefix |-> prefix,
                                           version |-> servers_config[m].version])
                    ELSE F[m - 1]
    IN F[Len(servers_config)]

\* lines 123-128: the other keys, as (name, version), in mapping order
ExactServersOf(servers_config) ==
    LET F[m \in 0..Len(servers_config)] ==
            IF m = 0 THEN <<>>
            ELSE LET prefix == parse_author_pattern(servers_config[m].key)
                 IN IF prefix # <<>>
                    THEN F[m - 1]
                    ELSE Append(F[m - 1], [name |-> servers_config[m].key,
                                           version |-> servers_config[m].version])
    IN F[Len(servers_config)]

\* lines 137-150 as a bug would write them, without the break: the last
\* pattern that the name starts with
FirstMatch_Last(patterns, server_name) ==
    LET hits == {m \in 1..Len(patterns) : StartsWith(server_name, patterns[m].prefix)}
    IN IF hits = {} THEN 0 ELSE CHOOSE m \in hits : \A q \in hits : q <= m

\* lines 137-150: the first pattern, in mapping order, that the name starts
\* with; 0 when there is none
FirstMatch(patterns, server_name) ==
    LET hits == {m \in 1..Len(patterns) : StartsWith(server_name, patterns[m].prefix)}
    IN IF hits = {} THEN 0 ELSE CHOOSE m \in hits : \A q \in hits : m <= q

----------------------------------------------------------------------------
(* The environment's values *)

\* the version field of a private descriptor and of a listed record
FileVersion == "1.0"

\* the version field of the record a version-resolution request answers with
ResolvedVersion(version) == IF version = "latest" THEN "2.0" ELSE version

\* registry.json: a private registry at position pos with n paths; the m-th
\* path of the registry at position pos is the file <<pos, m>>
PrivateReg(name, pos, n) ==
    [name |-> name, type |-> "private",
     servers_relative_path |-> [m \in 1..n |-> <<pos, m>>],
     all |-> FALSE, servers |-> <<>>, exclude |-> {}]

\* registry.json: a remote registry; servers is "*" (all) or a mapping, kept
\* as its (key, version) pairs in order
RemoteReg(name, all, servers, exclude) ==
    [name |-> name, type |-> "public",
     servers_relative_path |-> <<>>,
     all |-> all, servers |-> servers, exclude |-> exclude]

NoReg == RemoteReg("", FALSE, <<>>, {})

Rule(key, version) == [key |-> key, version |-> version]

\* registry.json: the remote registries a compilation meets.  Between them
\* they have the rule "*" with and without an excluded name, an author
\* wildcard, an exact name, an excluded exact name, and a wildcard together
\* with an exact name it also matches.
RemoteRegs ==
    { RemoteReg("pub1", TRUE, <<>>, {}),
      RemoteReg("pub2", TRUE, <<>>, {NameABX}),
      RemoteReg("pub1", FALSE, <<Rule(KeyA, "latest")>>, {}),
      RemoteReg("pub2", FALSE, <<Rule(NameAY, "1.0")>>, {}),
      RemoteReg("pub1", FALSE, <<Rule(NameAY, "latest"), Rule(NameABX, "1.0")>>, {NameAY}),
      RemoteReg("pub2", FALSE, <<Rule(KeyAB, "1.0"), Rule(NameABX, "latest")>>, {}) }

\* requests.get in flight: kind "list" (fetch_server_list), "wild" or "exact"
\* (fetch_server_version, from the wildcard pass or the exact-name loop)
Request(kind, cursor, name, version) ==
    [kind |-> kind, cursor |-> cursor, name |-> name, version |-> version]

NoReq == Request("none", None, <<>>, "")

\* `if cursor:` / `if not cursor:`
Truthy(c) == c # None

----------------------------------------------------------------------------
(* compiler.py: write_compiled_registry *)

\* config.json registryName, or DEFAULT_REGISTRY_NAME
Labels == {"io.modelcontextprotocol.registry/private", "example/registry"}

\* datetime.now(UTC) of a call, formatted
Times == {"2026-01-01T00:00:00Z", "2026-01-01T00:00:01Z"}

\* lines 137-140 as a bug would write them: the data is nested under
\* "server" whatever its shape
wrap_server_AlwaysNests(server, registry_name, now) ==
    [server |-> server.data,
     _meta |-> (registry_name :> [status |-> "active", publishedAt |-> now,
                                  updatedAt |-> now, isLatest |-> TRUE]),
     _source |-> server.source]

\* lines 132-154: {**server.data, "_source": server.source} when the data
\* has a "server" key, else the data nested under "server" with a _meta
\* block and _source
wrap_server(server, registry_name, now) ==
    IF "server" \in DOMAIN server.data
    THEN [key \in DOMAIN server.data \cup {"_source"} |->
            IF key = "_source" THEN server.source ELSE server.data[key]]
    ELSE [server |-> server.data,
          _meta |-> (registry_name :> [status |-> "active", publishedAt |-> now,
                                       updatedAt |-> now, isLatest |-> TRUE]),
          _source |-> server.source]

\* lines 156-161 as a bug would write them: the count is the number of
\* distinct names
compiled_document_CountsNames(servers, registry_name, now) ==
    [servers |-> [m \in 1..Len(servers) |-> wrap_server(servers[m], registry_name, now)],
     metadata |-> [count |-> Cardinality({servers[m].name : m \in 1..Len(servers)})]]

\* lines 156-161: the dict given to json.dump
compiled_document(servers, registry_name, now) ==
    [servers |-> [m \in 1..Len(servers) |-> wrap_server(servers[m], registry_name, now)],
     metadata |-> [count |-> Len(servers)]]

\* a token of JSON text: punctuation, an object key, a number, or the text
\* of one element of the servers array
Token(kind, value) == [kind |-> kind, value |-> value]

\* json.dump of a compiled document (lines 163-164)
json_dump(document) ==
    <<Token("{", 0), Token("key", "servers"), Token("[", 0)>>
    \o [m \in 1..Len(document.servers) |-> Token("element", document.servers[m])]
    \o <<Token("]", 0), Token("key", "metadata"), Token("{", 0),
         Token("key", "count"), Token("number", document.metadata.count),
         Token("}", 0), Token("}", 0)>>

\* the tokens of text of one kind, in order
TokensOf(text, kind) == SelectSeq(text, LAMBDA token : token.kind = kind)

\* json.load of the output file: the array is made of the elements found
\* between its brackets, the count of the number found after its key
json_load(text) ==
    [servers |-> [m \in 1..Len(TokensOf(text, "element")) |->
                    TokensOf(text, "element")[m].value],
     metadata |-> [count |-> TokensOf(text, "number")[1].value]]

\* nothing has been read
NoDocument == [servers |-> <<>>, metadata |-> [count |-> -1]]

----------------------------------------------------------------------------
(* adder.py: parse_name, add_to_registry *)

\* the characters of a name argument: letters, the separator, whitespace
Chars == {"a", "b", "/", " "}

\* c in text
Contains(text, c) == \E m \in 1..Len(text) : text[m] = c

\* text.split(c, 1) for a text that contains c
split_once(text, c) ==
    LET p == CHOOSE m \in 1..Len(text) :
                /\ text[m] = c
                /\ \A q \in 1..(m - 1) : text[q] # c
    IN <<SubSeq(text, 1, p - 1), SubSeq(text, p + 1, Len(text))>>

\* text.rsplit(c, 1) for a text that contains c
rsplit_once(text, c) ==
    LET p == CHOOSE m \in 1..Len(text) :
                /\ text[m] = c
                /\ \A q \in (m + 1)..Len(text) : text[q] # c
    IN <<SubSeq(text, 1, p - 1), SubSeq(text, p + 1, Len(text))>>

RECURSIVE lstrip(_)
lstrip(text) ==
    IF text # <<>> /\ Head(text) = " " THEN lstrip(Tail(text)) ELSE text

RECURSIVE rstrip(_)
rstrip(text) ==
    IF text # <<>> /\ text[Len(text)] = " "
    THEN rstrip(SubSeq(text, 1, Len(text) - 1))
    ELSE text

\* text.strip()
strip(text) == rstrip(lstrip(text))

\* what parse_name does: it raises ValueError or returns (author, name)
Raised(exception) == [raised |-> exception, author |-> <<>>, server_name |-> <<>>]
Parsed(author, server_name) ==
    [raised |-> "", author |-> author, server_name |-> server_name]

\* lines 27-28 as a bug would write them: the name is split at its last "/"
parse_name_SplitsLast(name) ==
    IF ~Contains(name, "/") THEN Raised("ValueError")
    ELSE LET parts == rsplit_once(name, "/")
             author == strip(parts[1])
             server_name == strip(parts[2])
         IN IF author = <<>> \/ server_name = <<>>
            THEN Raised("ValueError")
            ELSE Parsed(author, server_name)

\* lines 23-31
parse_name(name) ==
    IF ~Contains(name, "/") THEN Raised("ValueError")
    ELSE LET parts == split_once(name, "/")
             author == strip(parts[1])
             server_name == strip(parts[2])
         IN IF author = <<>> \/ server_name = <<>>
            THEN Raised("ValueError")
            ELSE Parsed(author, server_name)

\* registry.json: {"registries": [...]}; an element has a name, a type and,
\* when private, its paths
RegistryEntry(name, type, paths) ==
    [name |-> name, type |-> type, servers_relative_path |-> paths]

\* lines 137-141: the position of the first registry of type "private";
\* 0 when there is none
FirstPrivate(registries) ==
    LET hits == {m \in 1..Len(registries) : registries[m].type = "private"}
    IN IF hits = {} THEN 0 ELSE CHOOSE m \in hits : \A q \in hits : m <= q

\* lines 152-155 as a bug would write them: the path is appended whether or
\* not it is there
AppendPath_Always(paths, server_relative_path) ==
    Append(paths, server_relative_path)

\* lines 152-155: if server_relative_path not in paths: paths.append(...)
AppendPath(paths, server_relative_path) ==
    IF \E m \in 1..Len(paths) : paths[m] = server_relative_path
    THEN paths
    ELSE Append(paths, server_relative_path)

\* lines 131-159: the document add_to_registry writes, from the one it read
add_to_registry(registry, server_relative_path) ==
    LET found == FirstPrivate(registry.registries)
        registries ==
            IF found = 0
            THEN Append(registry.registries, RegistryEntry("private", "private", <<>>))
            ELSE registry.registries
        at == IF found = 0 THEN Len(registries) ELSE found
    IN [registries |->
          [m \in 1..Len(registries) |->
              IF m = at
              THEN [registries[m] EXCEPT !.servers_relative_path =
                                            AppendPath(@, server_relative_path)]
              ELSE registries[m]]]

\* the file registry.json: missing, unparsable, or a document
NoFile == [exists |-> FALSE, parses |-> FALSE, registries |-> <<>>]
BadFile == [exists |-> TRUE, parses |-> FALSE, registries |-> <<>>]
RegistryFile(registries) ==
    [exists |-> TRUE, parses |-> TRUE, registries |-> registries]

\* AddResult(success, message=...); the message is kept as its kind
AddResult(success, message) == [success |-> success, message |-> message]
NoResult == AddResult(FALSE, "none")

\* f"mcps/{author}/{server_name}/server.json"
PathOf(author, server_name) == <<"mcps", author, server_name, "server.json">>

----------------------------------------------------------------------------
(* fetcher.py: fetch_server_version, the url (lines 62-64) *)

\* the characters of a server name: one that quote keeps, the separator,
\* the escape character and the characters of the separator's escape
QuoteChars == {"a", "/", "%", "2", "F"}

\* urllib.parse.quote(text, safe="/"), the default, as a bug would call it
RECURSIVE quote_SafeSlash(_)
quote_SafeSlash(text) ==
    IF text = <<>> THEN <<>>
    ELSE (IF Head(text) = "%" THEN <<"%", "2", "5">>
          ELSE <<Head(text)>>) \o quote_SafeSlash(Tail(text))

\* urllib.parse.quote(text, safe=""): letters and digits are kept, every
\* other character becomes "%" and the two hexadecimal digits of its code
RECURSIVE quote(_)
quote(text) ==
    IF text = <<>> THEN <<>>
    ELSE (IF Head(text) = "/" THEN <<"%", "2", "F">>
          ELSE IF Head(text) = "%" THEN <<"%", "2", "5">>
          ELSE <<Head(text)>>) \o quote(Tail(text))

\* base_url.rstrip('/')
RECURSIVE rstrip_slash(_)
rstrip_slash(text) ==
    IF text # <<>> /\ text[Len(text)] = "/"
    THEN rstrip_slash(SubSeq(text, 1, Len(text) - 1))
    ELSE text

\* the base URLs of a registry, with and without "/" at the end; "https:",
\* the host, "v0.1", "servers", "versions" and the version are kept whole
BaseUrls == {<<"https:", "/", "/", "host">>, <<"https:", "/", "/", "host", "/">>,
             <<"https:", "/", "/", "host", "/", "api", "/", "/">>}

\* line 64
VersionUrl(base_url, server_name, version) ==
    rstrip_slash(base_url) \o <<"/", "v0.1", "/", "servers", "/">>
        \o quote(server_name) \o <<"/", "versions", "/", version>>

----------------------------------------------------------------------------
(* validator.py: ValidationError, validate_config, validate_registry *)

\* ValidationError(file, path, message); the message is kept as its kind, and
\* the errors jsonschema reports for one document are kept as one
VError(file, path, message) == [file |-> file, path |-> path, message |-> message]

\* lines 77-93: the errors of config.json
validate_config(config) ==
    CASE config = "missing" -> <<>>
      [] config = "invalid_json" -> <<VError("config.json", "", "Invalid JSON")>>
      [] config = "violates" -> <<VError("config.json", "", "schema")>>
      [] OTHER -> <<>>

\* lines 96-112: the errors of registry.json
validate_registry(registry, satisfies) ==
    IF ~registry.exists THEN <<VError("registry.json", "", "File not found")>>
    ELSE IF ~registry.parses THEN <<VError("registry.json", "", "Invalid JSON")>>
    ELSE IF ~satisfies THEN <<VError("registry.json", "", "schema")>>
    ELSE <<>>

\* the schemas a URL may serve, at one time or another
Schemas == {"s1", "s2"}
SchemaUrls == {"https://u1/server.schema.json", "https://u2/server.schema.json"}

\* a server.json file: missing, not JSON, or a document with its "$schema"
\* ("" when it has none) and the schemas it violates
ServerFile(state, schema_url, violates) ==
    [state |-> state, schema_url |-> schema_url, violates |-> violates]

\* lines 143-144: the errors of a document against a schema
validate_against_schema(server_file, schema, file_name) ==
    IF schema \in server_file.violates
    THEN <<VError(file_name, "", "schema")>>
    ELSE <<>>

----------------------------------------------------------------------------
(* State *)

VARIABLES
    pc,             \* position of the run
    valid,          \* validation.is_valid
    exit_code,      \* value cmd_compile returned; -1 while it runs
    written,        \* number of calls of write_compiled_registry
    output,         \* the entries handed to write_compiled_registry
    file,           \* the text of the output file, as JSON tokens; empty
                    \* before it is written
    reread,         \* the document json.load made of the output file
    i,              \* position of the registry being processed (1-based)
    reg,            \* the registry being processed
    j,              \* number of paths of reg already attempted
    all_servers,    \* compile_registry's all_servers
    origins,        \* history: for each element of all_servers, the type of
                    \* the registry that produced it
    errors,         \* result.errors
    result_servers, \* result.servers
    checked,        \* history: check_conflicts has been called
    results,        \* fetch_from_public_registry's results
    patterns,       \* its patterns (prefix, version)
    exact_servers,  \* its exact_servers (name, version)
    k,              \* number of exact_servers already taken
    cursor,         \* fetch_server_list's cursor
    page,           \* records of the current page not yet yielded
    npaths,         \* history: number of paths of the registries walked
    pages,          \* history: number of listing requests sent
    listed,         \* history: number of listed records received
    dropped,        \* history: len(results) when the fetch raised
    req,            \* the request in flight while pc = "await"; after a
                    \* failure, the request that failed
    issued,         \* history: the request sites of this fetch that sent
    failed,         \* history: a request has failed
    producers,      \* history: for each element of all_servers, the position
                    \* and the name of the registry that produced it, and
                    \* its rank among the paths or the entries of that
                    \* registry
    stream,         \* history: the names fetch_server_list yielded in this fetch
    received,       \* history: the names of the records of the responses of
                    \* this fetch, page after page
    sent,           \* history: the cursor parameter of each listing request
                    \* of this fetch; None when the request carried none
    cursors,        \* history: the nextCursor of each listing response of
                    \* this fetch
    arg_name,       \* the name argument of add_server
    add_path,       \* add_server's (author, server_name)
    add_result,     \* the AddResult add_server returned
    descriptors,    \* the server.json files under mcps/
    registry_json,  \* the file registry.json
    appended,       \* history: the paths add_to_registry appended
    last_path,      \* history: the path of the last call of add_to_registry
    adds,           \* history: number of calls of add_to_registry
    config_json,    \* the file config.json: "missing", "invalid_json",
                    \* "violates" (its schema) or "conforms"
    conforms,       \* registry.json satisfies schemas/registry.schema.json
    server_json,    \* the server.json file at each relative path
    schema_cache,   \* validator.py's _schema_cache: URL -> schema
    gets,           \* history: the URL of each requests.get of
                    \* fetch_remote_schema
    returned,       \* history: the URL and the schema of each call of
                    \* fetch_remote_schema that returned
    v_errors,       \* validate_all's result.errors
    validated,      \* history: the paths given to validate_server_json
    version_url     \* the url fetch_server_version built, as characters

cliVars == <<valid, exit_code, written, output, file, reread>>
walkVars == <<i, reg, j>>
accVars == <<all_servers, origins, errors, result_servers, checked>>
fetchVars == <<results, patterns, exact_servers, k, cursor, page>>
histVars == <<npaths, pages, listed, dropped>>
netVars == <<req, issued, failed>>
listVars == <<stream, received, sent, cursors>>
addVars == <<arg_name, add_path, add_result, descriptors, registry_json,
             appended, last_path, adds>>
valVars == <<config_json, conforms, server_json, schema_cache, gets,
             returned, v_errors, validated>>
\* the variables of the commands modelled apart from compile and add
sideVars == <<valVars, version_url>>
vars == <<pc, cliVars, walkVars, accVars, fetchVars, histVars, netVars,
          producers, listVars, addVars, sideVars>>

\* validate_all has not been called: no file of its own is looked at
ValIdle ==
    /\ config_json = "missing"
    /\ conforms = FALSE
    /\ server_json = <<>>
    /\ schema_cache = <<>>
    /\ gets = <<>>
    /\ returned = <<>>
    /\ v_errors = <<>>
    /\ validated = <<>>

\* the variables of compile and add but pc, all_servers, arg_name and
\* registry_json
InitCore ==
    /\ valid = FALSE
    /\ exit_code = -1
    /\ written = 0
    /\ output = <<>>
    /\ file = <<>>
    /\ reread = NoDocument
    /\ i = 0
    /\ reg = NoReg
    /\ j = 0
    /\ origins = <<>>
    /\ errors = <<>>
    /\ result_servers = <<>>
    /\ checked = FALSE
    /\ results = <<>>
    /\ patterns = <<>>
    /\ exact_servers = <<>>
    /\ k = 0
    /\ cursor = None
    /\ page = <<>>
    /\ npaths = 0
    /\ pages = 0
    /\ listed = 0
    /\ dropped = 0
    /\ req = NoReq
    /\ issued = {}
    /\ failed = FALSE
    /\ producers = <<>>
    /\ stream = <<>>
    /\ received = <<>>
    /\ sent = <<>>
    /\ cursors = <<>>
    /\ add_path = <<>>
    /\ add_result = NoResult
    /\ descriptors = {}
    /\ appended = <<>>
    /\ last_path = <<>>
    /\ adds = 0
    /\ version_url = <<>>

\* every variable but pc and all_servers, before the command has done
\* anything
InitRest ==
    /\ InitCore
    /\ ValIdle

\* the compile command is started
Init ==
    /\ pc = "start"
    /\ all_servers = <<>>
    /\ arg_name = <<>>
    /\ registry_json = NoFile
    /\ InitRest

----------------------------------------------------------------------------
(* registry.py: cmd_compile, before the call of compile_registry *)

\* lines 60-72: validate_all reports errors; return 1
ValidationFails ==
    /\ pc = "start"
    /\ valid' = FALSE
    /\ exit_code' = 1
    /\ pc' = "exit"
    /\ UNCHANGED <<written, output, file, reread>>
    /\ UNCHANGED <<walkVars, accVars, fetchVars, histVars, netVars>>
    /\ UNCHANGED <<producers, listVars>>
    /\ UNCHANGED <<addVars, sideVars>>

\* lines 60-61: validate_all reports no error
ValidationPasses ==
    /\ pc = "start"
    /\ valid' = TRUE
    /\ pc' = "configs"
    /\ UNCHANGED <<exit_code, written, output, file, reread>>
    /\ UNCHANGED <<walkVars, accVars, fetchVars, histVars, netVars>>
    /\ UNCHANGED <<producers, listVars>>
    /\ UNCHANGED <<addVars, sideVars>>

\* lines 75-87: registry.json is read and compile_registry is called;
\* compiler.py lines 82-83: result and all_servers start empty
CallCompile ==
    /\ pc = "configs"
    /\ i' = 0
    /\ all_servers' = <<>>
    /\ origins' = <<>>
    /\ producers' = <<>>
    /\ errors' = <<>>
    /\ result_servers' = <<>>
    /\ pc' = "walk"
    /\ UNCHANGED <<reg, j, checked>>
    /\ UNCHANGED <<cliVars, fetchVars, histVars, netVars, listVars>>
    /\ UNCHANGED <<addVars, sideVars>>

----------------------------------------------------------------------------
(* compiler.py: compile_registry, private registries (lines 85-98) *)

\* lines 35-44 as a bug would write them: the source is the literal "private"
load_private_server_Literal(data, registry_name) ==
    ServerEntry(data.name, data.version, data, "private")

\* lines 35-44: the entry made of a descriptor's parsed JSON
load_private_server(data, registry_name) ==
    ServerEntry(data.name, data.version, data, registry_name)

\* lines 85-88: registry_config["registries"] has a further element, and it
\* is a private registry
WalkPrivate ==
    /\ pc = "walk"
    /\ i < MaxRegs
    /\ i' = i + 1
    /\ \E name \in PrivateNames, n \in 0..(MaxPaths - npaths) :
          /\ npaths' = npaths + n
          /\ IF n = 0
             THEN /\ reg' = NoReg
                  /\ pc' = "walk"
             ELSE /\ reg' = PrivateReg(name, i + 1, n)
                  /\ pc' = "load"
    /\ j' = 0
    /\ UNCHANGED <<pages, listed, dropped>>
    /\ UNCHANGED <<results, patterns, exact_servers, k, cursor, page>>
    /\ UNCHANGED <<cliVars, accVars, netVars>>
    /\ UNCHANGED <<producers, listVars>>
    /\ UNCHANGED <<addVars, sideVars>>

\* line 88 as a bug would write it: the first path that was attempted ends
\* the registry
NextPath_Break ==
    /\ pc' = "walk"
    /\ reg' = NoReg
    /\ j' = 0

\* line 88: the for loop over servers_relative_path moves on; after the last
\* path the walk goes to the next registry
NextPath ==
    IF j + 1 = Len(reg.servers_relative_path)
    THEN /\ pc' = "walk"
         /\ reg' = NoReg
         /\ j' = 0
    ELSE /\ pc' = "load"
         /\ reg' = reg
         /\ j' = j + 1

\* lines 89-94: the descriptor is read and parsed
LoadOk ==
    /\ pc = "load"
    /\ \E name \in Names :
          all_servers' = Append(all_servers,
                                load_private_server(FlatData(name, FileVersion), reg.name))
    /\ origins' = Append(origins, reg.type)
    /\ producers' = Append(producers, [pos |-> i, name |-> reg.name, ord |-> j + 1])
    /\ NextPath
    /\ UNCHANGED <<i, errors, result_servers, checked>>
    /\ UNCHANGED <<cliVars, fetchVars, histVars, netVars, listVars>>
    /\ UNCHANGED <<addVars, sideVars>>

\* lines 95-98 as a bug would write them: the exception is swallowed and
\* the path gives nothing
LoadFails_Silent ==
    /\ pc = "load"
    /\ NextPath
    /\ UNCHANGED <<i, all_servers, origins, errors, result_servers, checked>>
    /\ UNCHANGED <<cliVars, fetchVars, histVars, netVars>>
    /\ UNCHANGED <<producers, listVars>>
    /\ UNCHANGED <<addVars, sideVars>>

\* lines 95-98: open or json.load raises
LoadFails ==
    /\ pc = "load"
    /\ errors' = Append(errors, LoadError(reg.servers_relative_path[j + 1]))
    /\ NextPath
    /\ UNCHANGED <<i, all_servers, origins, result_servers, checked>>
    /\ UNCHANGED <<cliVars, fetchVars, histVars, netVars>>
    /\ UNCHANGED <<producers, listVars>>
    /\ UNCHANGED <<addVars, sideVars>>

----------------------------------------------------------------------------
(* fetcher.py: fetch_from_public_registry, called at compiler.py line 102 *)

\* requests.get is called: the request is in flight until its response
Send(request, site) ==
    /\ req' = request
    /\ issued' = issued \cup {site}
    /\ pc' = "await"
    /\ UNCHANGED failed

\* the locals of a fetch_from_public_registry call that has ended, and the
\* loop variable of the walk
ResetFetch ==
    /\ results' = <<>>
    /\ patterns' = <<>>
    /\ exact_servers' = <<>>
    /\ k' = 0
    /\ cursor' = None
    /\ page' = <<>>
    /\ reg' = NoReg
    /\ stream' = <<>>
    /\ received' = <<>>
    /\ sent' = <<>>
    /\ cursors' = <<>>

\* line 131 as a bug would write it, without `if patterns:`: the listing is
\* streamed for every mapping
CallFetch_AlwaysLists(r) ==
    /\ r.all \/ PatternsOf(r.servers) # <<>> => pages < MaxPages
    /\ reg' = r
    /\ patterns' = IF r.all THEN <<>> ELSE PatternsOf(r.servers)
    /\ exact_servers' = IF r.all THEN <<>> ELSE ExactServersOf(r.servers)
    /\ pc' = "list0"
    /\ results' = <<>>
    /\ k' = 0
    /\ cursor' = None
    /\ page' = <<>>
    /\ issued' = {}
    /\ UNCHANGED <<j, req, failed>>
    /\ UNCHANGED <<cliVars, accVars, histVars>>
    /\ UNCHANGED <<producers, listVars>>

\* fetcher.py lines 95-131: fetch_from_public_registry is called with the
\* registry r; its rule is "*", or a mapping that is split into patterns and
\* exact names
CallFetch(r) ==
    /\ r.all \/ PatternsOf(r.servers) # <<>> => pages < MaxPages
    /\ reg' = r
    /\ patterns' = IF r.all THEN <<>> ELSE PatternsOf(r.servers)
    /\ exact_servers' = IF r.all THEN <<>> ELSE ExactServersOf(r.servers)
    /\ pc' = IF r.all \/ PatternsOf(r.servers) # <<>> THEN "list0" ELSE "exact"
    /\ results' = <<>>
    /\ k' = 0
    /\ cursor' = None
    /\ page' = <<>>
    /\ issued' = {}
    /\ UNCHANGED <<j, req, failed>>
    /\ UNCHANGED <<cliVars, accVars, histVars>>
    /\ UNCHANGED <<producers, listVars>>

\* compiler.py lines 85-86 and 100-102: registry_config["registries"] has a
\* further element, and it is a remote registry
WalkRemote ==
    /\ pc = "walk"
    /\ i < MaxRegs
    /\ i' = i + 1
    /\ \E r \in RemoteRegs : CallFetch(r)
    /\ UNCHANGED <<addVars, sideVars>>

\* fetch_server_list lines 38-42 as a bug would write them: the cursor is
\* never put into the parameters
ListSend_NoCursor ==
    /\ \/ pc = "list0"
       \/ pc = "list" /\ page = <<>> /\ Truthy(cursor)
    /\ Send(Request("list", None, <<>>, ""), <<"list", pages + 1>>)
    /\ sent' = Append(sent, None)
    /\ pages' = pages + 1
    /\ UNCHANGED <<npaths, listed, dropped>>
    /\ UNCHANGED <<cliVars, walkVars, accVars, fetchVars>>
    /\ UNCHANGED <<producers, stream, received, cursors>>
    /\ UNCHANGED <<addVars, sideVars>>

\* fetch_server_list lines 35-42: the first page is asked for without a
\* cursor, a later page with the nextCursor of the response before
ListSend ==
    /\ \/ pc = "list0"
       \/ pc = "list" /\ page = <<>> /\ Truthy(cursor)
    /\ Send(Request("list", IF Truthy(cursor) THEN cursor ELSE None, <<>>, ""),
            <<"list", pages + 1>>)
    /\ sent' = Append(sent, IF Truthy(cursor) THEN cursor ELSE None)
    /\ pages' = pages + 1
    /\ UNCHANGED <<npaths, listed, dropped>>
    /\ UNCHANGED <<cliVars, walkVars, accVars, fetchVars>>
    /\ UNCHANGED <<producers, stream, received, cursors>>
    /\ UNCHANGED <<addVars, sideVars>>

\* fetch_server_list lines 43-51: a page arrives with its records and its
\* nextCursor
ListResponse ==
    /\ pc = "await"
    /\ req.kind = "list"
    /\ \E records \in SeqsUpTo(Names, MaxListed - listed),
          next \in (IF pages < MaxPages THEN {None, CursorAfter(pages)} ELSE {None}) :
          /\ page' = records
          /\ listed' = listed + Len(records)
          /\ cursor' = next
          /\ received' = received \o records
          /\ cursors' = Append(cursors, next)
    /\ req' = NoReq
    /\ pc' = "list"
    /\ UNCHANGED <<results, patterns, exact_servers, k>>
    /\ UNCHANGED <<npaths, pages, dropped, issued, failed>>
    /\ UNCHANGED <<cliVars, walkVars, accVars>>
    /\ UNCHANGED <<producers, stream, sent>>
    /\ UNCHANGED <<addVars, sideVars>>

\* lines 105-117 as a bug would write them: the exclude list is not looked at
ListItemAll_NoExclude ==
    /\ pc = "list"
    /\ page # <<>>
    /\ reg.all
    /\ page' = Tail(page)
    /\ results' = Append(results,
                         ServerEntry(Head(page), FileVersion,
                                     WrappedData(Head(page), FileVersion),
                                     reg.name))
    /\ stream' = Append(stream, Head(page))
    /\ UNCHANGED <<pc, patterns, exact_servers, k, cursor>>
    /\ UNCHANGED <<cliVars, walkVars, accVars, histVars, netVars>>
    /\ UNCHANGED <<producers, received, sent, cursors>>
    /\ UNCHANGED <<addVars, sideVars>>

\* fetch_from_public_registry lines 105-117, servers == "*": the next listed
\* record is taken unless its name is excluded
ListItemAll ==
    /\ pc = "list"
    /\ page # <<>>
    /\ reg.all
    /\ page' = Tail(page)
    /\ results' = IF Head(page) \in reg.exclude
                  THEN results
                  ELSE Append(results,
                              ServerEntry(Head(page), FileVersion,
                                          WrappedData(Head(page), FileVersion),
                                          reg.name))
    /\ stream' = Append(stream, Head(page))
    /\ UNCHANGED <<pc, patterns, exact_servers, k, cursor>>
    /\ UNCHANGED <<cliVars, walkVars, accVars, histVars, netVars>>
    /\ UNCHANGED <<producers, received, sent, cursors>>
    /\ UNCHANGED <<addVars, sideVars>>

\* lines 132-142: the next listed record is matched against the patterns; on
\* the first match its version is asked for
ListItemWild ==
    /\ pc = "list"
    /\ page # <<>>
    /\ ~reg.all
    /\ page' = Tail(page)
    /\ LET m == FirstMatch(patterns, Head(page))
       IN IF m = 0
          THEN UNCHANGED <<pc, netVars>>
          ELSE Send(Request("wild", None, Head(page), patterns[m].version),
                    <<"wild", listed - Len(page) + 1>>)
    /\ stream' = Append(stream, Head(page))
    /\ UNCHANGED <<results, patterns, exact_servers, k, cursor>>
    /\ UNCHANGED <<cliVars, walkVars, accVars, histVars>>
    /\ UNCHANGED <<producers, received, sent, cursors>>
    /\ UNCHANGED <<addVars, sideVars>>

\* lines 143-150 and 160-167: the record of a version-resolution request
\* becomes an entry
VersionResponse ==
    /\ pc = "await"
    /\ req.kind \in {"wild", "exact"}
    /\ results' = Append(results,
                         ServerEntry(req.name, ResolvedVersion(req.version),
                                     WrappedData(req.name, ResolvedVersion(req.version)),
                                     reg.name))
    /\ pc' = IF req.kind = "wild" THEN "list" ELSE "exact"
    /\ req' = NoReq
    /\ UNCHANGED <<patterns, exact_servers, k, cursor, page>>
    /\ UNCHANGED <<issued, failed>>
    /\ UNCHANGED <<cliVars, walkVars, accVars, histVars>>
    /\ UNCHANGED <<producers, listVars>>
    /\ UNCHANGED <<addVars, sideVars>>

\* fetch_server_list lines 52-53 in the wildcard pass: the listing is over,
\* the exact names are next
ListEndWild ==
    /\ pc = "list"
    /\ page = <<>>
    /\ ~Truthy(cursor)
    /\ ~reg.all
    /\ pc' = "exact"
    /\ UNCHANGED <<cliVars, walkVars, accVars, fetchVars, histVars, netVars>>
    /\ UNCHANGED <<producers, listVars>>
    /\ UNCHANGED <<addVars, sideVars>>

\* lines 153-159 as a bug would write them: a name the wildcard pass has
\* resolved is not asked for again
ExactStep_SkipsResolved ==
    /\ pc = "exact"
    /\ k < Len(exact_servers)
    /\ k' = k + 1
    /\ IF \/ exact_servers[k + 1].name \in reg.exclude
          \/ \E m \in 1..Len(results) : results[m].name = exact_servers[k + 1].name
       THEN UNCHANGED <<pc, netVars>>
       ELSE Send(Request("exact", None, exact_servers[k + 1].name,
                         exact_servers[k + 1].version),
                 <<"exact", k + 1>>)
    /\ UNCHANGED <<results, patterns, exact_servers, cursor, page>>
    /\ UNCHANGED <<cliVars, walkVars, accVars, histVars>>
    /\ UNCHANGED <<producers, listVars>>
    /\ UNCHANGED <<addVars, sideVars>>

\* lines 153-159: the next exact name; its version is asked for unless the
\* name is excluded
ExactStep ==
    /\ pc = "exact"
    /\ k < Len(exact_servers)
    /\ k' = k + 1
    /\ IF exact_servers[k + 1].name \in reg.exclude
       THEN UNCHANGED <<pc, netVars>>
       ELSE Send(Request("exact", None, exact_servers[k + 1].name,
                         exact_servers[k + 1].version),
                 <<"exact", k + 1>>)
    /\ UNCHANGED <<results, patterns, exact_servers, cursor, page>>
    /\ UNCHANGED <<cliVars, walkVars, accVars, histVars>>
    /\ UNCHANGED <<producers, listVars>>
    /\ UNCHANGED <<addVars, sideVars>>

\* compiler.py line 103 as a bug would write it: the entries of the fetch
\* are put before the entries collected so far
FetchReturns_Prepends ==
    /\ \/ pc = "exact" /\ k = Len(exact_servers)
       \/ pc = "list" /\ page = <<>> /\ ~Truthy(cursor) /\ reg.all
    /\ all_servers' = results \o all_servers
    /\ origins' = [m \in 1..Len(results) |-> reg.type] \o origins
    /\ producers' = [m \in 1..Len(results) |->
                        [pos |-> i, name |-> reg.name, ord |-> m]] \o producers
    /\ ResetFetch
    /\ issued' = {}
    /\ pc' = "walk"
    /\ UNCHANGED <<i, j, errors, result_servers, checked, req, failed>>
    /\ UNCHANGED <<cliVars, histVars>>
    /\ UNCHANGED <<addVars, sideVars>>

\* fetcher.py line 172 and compiler.py line 103: the fetch returns and its
\* entries are added to all_servers
FetchReturns ==
    /\ \/ pc = "exact" /\ k = Len(exact_servers)
       \/ pc = "list" /\ page = <<>> /\ ~Truthy(cursor) /\ reg.all
    /\ all_servers' = all_servers \o results
    /\ origins' = origins \o [m \in 1..Len(results) |-> reg.type]
    /\ producers' = producers \o [m \in 1..Len(results) |->
                                      [pos |-> i, name |-> reg.name, ord |-> m]]
    /\ ResetFetch
    /\ issued' = {}
    /\ pc' = "walk"
    /\ UNCHANGED <<i, j, errors, result_servers, checked, req, failed>>
    /\ UNCHANGED <<cliVars, histVars>>
    /\ UNCHANGED <<addVars, sideVars>>

\* fetcher.py lines 169-170 as a bug would write them: the entries collected
\* before the failure are handed over with the error
RequestFails_KeepsPartial ==
    /\ pc = "await"
    /\ errors' = Append(errors, FetchErrorMsg(reg.name))
    /\ all_servers' = all_servers \o results
    /\ origins' = origins \o [m \in 1..Len(results) |-> reg.type]
    /\ producers' = producers \o [m \in 1..Len(results) |->
                                      [pos |-> i, name |-> reg.name, ord |-> m]]
    /\ dropped' = Len(results)
    /\ ResetFetch
    /\ failed' = TRUE
    /\ pc' = "returned"
    /\ UNCHANGED <<i, j, result_servers, checked, req, issued>>
    /\ UNCHANGED <<npaths, pages, listed>>
    /\ UNCHANGED cliVars
    /\ UNCHANGED <<addVars, sideVars>>

\* the same lines as a bug would write them: the failed request is sent again
RequestFails_Retry ==
    /\ pc = "await"
    /\ failed' = TRUE
    /\ UNCHANGED <<pc, req, issued>>
    /\ UNCHANGED <<cliVars, walkVars, accVars, fetchVars, histVars>>
    /\ UNCHANGED <<producers, listVars>>
    /\ UNCHANGED <<addVars, sideVars>>

\* compiler.py lines 104-106 as a bug would write them: the fetch error is
\* collected and the walk goes on with the next registry
RequestFails_GoesOn ==
    /\ pc = "await"
    /\ errors' = Append(errors, FetchErrorMsg(reg.name))
    /\ dropped' = Len(results)
    /\ ResetFetch
    /\ req' = NoReq
    /\ issued' = {}
    /\ failed' = TRUE
    /\ pc' = "walk"
    /\ UNCHANGED <<i, j, all_servers, origins, result_servers, checked>>
    /\ UNCHANGED <<npaths, pages, listed>>
    /\ UNCHANGED <<cliVars, producers>>
    /\ UNCHANGED <<addVars, sideVars>>

\* fetcher.py lines 42-43, 66-67, 169-170 and compiler.py lines 104-106:
\* requests.get or raise_for_status raises; fetch_from_public_registry raises
\* FetchError(name, ...) and its results are lost; compile_registry appends
\* the error and returns
RequestFails ==
    /\ pc = "await"
    /\ errors' = Append(errors, FetchErrorMsg(reg.name))
    /\ dropped' = Len(results)
    /\ ResetFetch
    /\ failed' = TRUE
    /\ pc' = "returned"
    /\ UNCHANGED <<i, j, all_servers, origins, result_servers, checked, req, issued>>
    /\ UNCHANGED <<npaths, pages, listed>>
    /\ UNCHANGED <<cliVars, producers>>
    /\ UNCHANGED <<addVars, sideVars>>

----------------------------------------------------------------------------
(* compiler.py: compile_registry, after the walk (lines 108-119) *)

\* CompileResult.is_success, lines 24-26
is_success(errs) == Len(errs) = 0

\* lines 112-117 as a bug would write them: the entries are returned whether
\* or not there are errors
ResultServers_Always(errs, servers) == Deduplicate(servers)

\* lines 112-117: result.servers is set only on success
ResultServers(errs, servers) ==
    IF is_success(errs) THEN Deduplicate(servers) ELSE <<>>

\* line 85 and lines 108-119: registry_config["registries"] has no further
\* element; the conflict check, the deduplication and the return
CheckAndReturn ==
    /\ pc = "walk"
    /\ errors' = errors \o check_conflicts(all_servers)
    /\ result_servers' = ResultServers(errors', all_servers)
    /\ checked' = TRUE
    /\ pc' = "returned"
    /\ UNCHANGED <<all_servers, origins>>
    /\ UNCHANGED <<cliVars, walkVars, fetchVars, histVars, netVars>>
    /\ UNCHANGED <<producers, listVars>>
    /\ UNCHANGED <<addVars, sideVars>>

----------------------------------------------------------------------------
(* registry.py: cmd_compile, after compile_registry returned *)

\* lines 89-100 as a bug would write them: the output is written although
\* compilation failed
CompileFailed_Writes ==
    /\ pc = "returned"
    /\ ~is_success(errors)
    /\ written' = written + 1
    /\ output' = result_servers
    /\ \E registry_name \in Labels, now \in Times :
          file' = json_dump(compiled_document(result_servers, registry_name, now))
    /\ exit_code' = 1
    /\ pc' = "exit"
    /\ UNCHANGED <<valid, reread>>
    /\ UNCHANGED <<walkVars, accVars, fetchVars, histVars, netVars>>
    /\ UNCHANGED <<producers, listVars>>
    /\ UNCHANGED <<addVars, sideVars>>

\* lines 89-100: not result.is_success; return 1
CompileFailed ==
    /\ pc = "returned"
    /\ ~is_success(errors)
    /\ exit_code' = 1
    /\ pc' = "exit"
    /\ UNCHANGED <<valid, written, output, file, reread>>
    /\ UNCHANGED <<walkVars, accVars, fetchVars, histVars, netVars>>
    /\ UNCHANGED <<producers, listVars>>
    /\ UNCHANGED <<addVars, sideVars>>

\* lines 102-117: write_compiled_registry(result.servers, ...); return 0
WriteOutput ==
    /\ pc = "returned"
    /\ is_success(errors)
    /\ written' = written + 1
    /\ output' = result_servers
    /\ \E registry_name \in Labels, now \in Times :
          file' = json_dump(compiled_document(result_servers, registry_name, now))
    /\ exit_code' = 0
    /\ pc' = "exit"
    /\ UNCHANGED <<valid, reread>>
    /\ UNCHANGED <<walkVars, accVars, fetchVars, histVars, netVars>>
    /\ UNCHANGED <<producers, listVars>>
    /\ UNCHANGED <<addVars, sideVars>>

----------------------------------------------------------------------------

Next ==
    \/ ValidationFails
    \/ ValidationPasses
    \/ CallCompile
    \/ WalkPrivate
    \/ LoadOk
    \/ LoadFails
    \/ WalkRemote
    \/ ListSend
    \/ ListResponse
    \/ ListItemAll
    \/ ListItemWild
    \/ VersionResponse
    \/ ListEndWild
    \/ ExactStep
    \/ FetchReturns
    \/ RequestFails
    \/ CheckAndReturn
    \/ CompileFailed
    \/ WriteOutput

\* one run of the compile command
Spec == Init /\ [][Next]_vars

----------------------------------------------------------------------------
(* check_conflicts on its own, applied to every list of entries of at most  *)
(* MaxLen elements (tests/test_compiler.py, TestCheckConflicts)             *)

ConflictSources == {"private", "pub1", "pub2"}

ConflictEntries ==
    {ServerEntry(name, FileVersion, FlatData(name, FileVersion), source) :
        name \in Names, source \in ConflictSources}

InitConflicts ==
    /\ pc = "conflicts"
    /\ all_servers \in SeqsUpTo(ConflictEntries, MaxLen)
    /\ InitRest
    /\ arg_name = <<>>
    /\ registry_json = NoFile

\* errors = check_conflicts(servers)
CallCheckConflicts ==
    /\ pc = "conflicts"
    /\ errors' = check_conflicts(all_servers)
    /\ pc' = "conflicts_done"
    /\ UNCHANGED <<all_servers, origins, result_servers, checked>>
    /\ UNCHANGED <<cliVars, walkVars, fetchVars, histVars, netVars>>
    /\ UNCHANGED <<producers, listVars>>
    /\ UNCHANGED <<addVars, sideVars>>

NextConflicts == CallCheckConflicts

SpecConflicts == InitConflicts /\ [][NextConflicts]_vars

----------------------------------------------------------------------------
(* fetch_from_public_registry on its own, for each selection rule, followed *)
(* by compile_registry's conflict check and return (tests/test_fetcher.py)  *)

\* the registries of RemoteRegs, and mappings with two author wildcards that
\* match the same name, in both orders, with an author wildcard and an
\* excluded name it matches, and with an author wildcard and an exact name
\* it does not match
FetchRegs ==
    RemoteRegs \cup
    { RemoteReg("pub1", FALSE, <<Rule(KeyA, "latest"), Rule(KeyAB, "1.0")>>, {}),
      RemoteReg("pub2", FALSE, <<Rule(KeyAB, "1.0"), Rule(KeyA, "latest")>>, {}),
      RemoteReg("pub1", FALSE, <<Rule(KeyA, "1.0")>>, {NameAY}),
      RemoteReg("pub2", FALSE, <<Rule(KeyAB, "latest"), Rule(NameAY, "1.0")>>, {}) }

InitFetch ==
    /\ pc = "fetch"
    /\ all_servers = <<>>
    /\ InitRest
    /\ arg_name = <<>>
    /\ registry_json = NoFile

\* compile_registry is called with one remote registry
FetchAlone ==
    /\ pc = "fetch"
    /\ i' = 1
    /\ \E r \in FetchRegs : CallFetch(r)
    /\ UNCHANGED <<addVars, sideVars>>

NextFetch ==
    \/ FetchAlone
    \/ ListSend
    \/ ListResponse
    \/ ListItemAll
    \/ ListItemWild
    \/ VersionResponse
    \/ ListEndWild
    \/ ExactStep
    \/ FetchReturns
    \/ RequestFails
    \/ CheckAndReturn

\* requests.get is called with a timeout, and the program is sequential: a
\* step that can be taken is taken
SpecFetch == InitFetch /\ [][NextFetch]_vars /\ WF_vars(NextFetch)

----------------------------------------------------------------------------
(* write_compiled_registry on its own, applied to every list of at most     *)
(* MaxLen entries and followed by json.load of the file it wrote            *)
(* (tests/test_compiler.py, TestWriteCompiledRegistry)                      *)

\* data of a record served by a compiled registry: wrapped, with a _meta
\* and a _source of its own
CompiledData(name, version) ==
    [server |-> [name |-> name, version |-> version],
     _meta |-> ("upstream/registry" :> [status |-> "active"]),
     _source |-> "upstream"]

\* the shapes of data an entry named name can have
WriterData(name) ==
    {FlatData(name, FileVersion), WrappedData(name, FileVersion),
     CompiledData(name, FileVersion)}

WriterEntries ==
    UNION {{ServerEntry(name, FileVersion, data, source) :
                data \in WriterData(name), source \in {"private", "pub1"}} :
           name \in Names}

\* all_servers is the list given as servers
InitWrite ==
    /\ pc = "write"
    /\ all_servers \in SeqsUpTo(WriterEntries, MaxLen)
    /\ InitRest
    /\ arg_name = <<>>
    /\ registry_json = NoFile

\* write_compiled_registry(servers, output_path, registry_name)
CallWrite ==
    /\ pc = "write"
    /\ written' = written + 1
    /\ output' = all_servers
    /\ \E registry_name \in Labels, now \in Times :
          file' = json_dump(compiled_document(all_servers, registry_name, now))
    /\ pc' = "written"
    /\ UNCHANGED <<valid, exit_code, reread>>
    /\ UNCHANGED <<walkVars, accVars, fetchVars, histVars, netVars>>
    /\ UNCHANGED <<producers, listVars>>
    /\ UNCHANGED <<addVars, sideVars>>

\* with open(output_path) as f: data = json.load(f)
ReadBack ==
    /\ pc = "written"
    /\ reread' = json_load(file)
    /\ pc' = "reread"
    /\ UNCHANGED <<valid, exit_code, written, output, file>>
    /\ UNCHANGED <<walkVars, accVars, fetchVars, histVars, netVars>>
    /\ UNCHANGED <<producers, listVars>>
    /\ UNCHANGED <<addVars, sideVars>>

NextWrite ==
    \/ CallWrite
    \/ ReadBack

SpecWrite == InitWrite /\ [][NextWrite]_vars

----------------------------------------------------------------------------
(* adder.py: add_server, called once for every name argument of at most     *)
(* MaxNameLen characters (tests/test_adder.py, TestParseName, TestAddServer) *)

Transports == {"sse", "streamable-http", "stdio"}
\* url: None or a URL
Urls == {"", "https://example.com/sse"}
\* command: empty or a command line
Commands == {<<>>, <<"npx", "pkg">>}

\* everything add_server leaves alone in every step
AddFrame ==
    /\ UNCHANGED <<cliVars, walkVars, accVars, fetchVars, histVars, netVars>>
    /\ UNCHANGED <<producers, listVars>>
    /\ UNCHANGED <<arg_name, appended, last_path, adds>>
    /\ UNCHANGED sideVars

InitAddServer ==
    /\ pc = "add"
    /\ all_servers = <<>>
    /\ arg_name \in SeqsUpTo(Chars, MaxNameLen)
    /\ registry_json \in {NoFile, BadFile,
                           RegistryFile(<<RegistryEntry("private", "private", <<>>)>>)}
    /\ InitRest

\* lines 174-188 and 220-221: the name is parsed and the transport's
\* argument is looked at; a ValueError of parse_name, a missing URL and a
\* missing command each end the call with a failure result
AddParse ==
    /\ pc = "add"
    /\ LET parsed == parse_name(arg_name)
       IN IF parsed.raised = "ValueError"
          THEN /\ add_result' = AddResult(FALSE, "ValueError")
               /\ pc' = "added"
               /\ UNCHANGED add_path
          ELSE \E transport \in Transports, url \in Urls, command \in Commands :
                  IF transport \in {"sse", "streamable-http"} /\ url = ""
                  THEN /\ add_result' = AddResult(FALSE, "URL required")
                       /\ pc' = "added"
                       /\ UNCHANGED add_path
                  ELSE IF transport = "stdio" /\ command = <<>>
                  THEN /\ add_result' = AddResult(FALSE, "Command required")
                       /\ pc' = "added"
                       /\ UNCHANGED add_path
                  ELSE /\ add_path' = <<parsed.author, parsed.server_name>>
                       /\ pc' = "add_write"
                       /\ UNCHANGED add_result
    /\ UNCHANGED <<descriptors, registry_json>>
    /\ AddFrame

\* a descriptor file and what is in it
Descriptor(path, content) == [path |-> path, content |-> content]

\* lines 190-197: the directory is made and server.json is written
AddWriteDescriptor ==
    /\ pc = "add_write"
    /\ descriptors' = {d \in descriptors : d.path # PathOf(add_path[1], add_path[2])}
                          \cup {Descriptor(PathOf(add_path[1], add_path[2]), "written")}
    /\ pc' = "add_registry"
    /\ UNCHANGED <<add_path, add_result, registry_json>>
    /\ AddFrame

\* lines 190-197 and 222-223: mkdir, open or json.dump raises; the file is
\* as it was, or was opened for writing and is incomplete
AddWriteFails ==
    /\ pc = "add_write"
    /\ \/ UNCHANGED descriptors
       \/ descriptors' =
             {d \in descriptors : d.path # PathOf(add_path[1], add_path[2])}
                \cup {Descriptor(PathOf(add_path[1], add_path[2]), "incomplete")}
    /\ add_result' = AddResult(FALSE, "Failed to add server")
    /\ pc' = "added"
    /\ UNCHANGED <<add_path, registry_json>>
    /\ AddFrame

\* lines 199-218: registry.json, when it exists, gets the path; the call
\* returns success
AddUpdateRegistry ==
    /\ pc = "add_registry"
    /\ ~registry_json.exists \/ registry_json.parses
    /\ registry_json' =
          IF registry_json.exists
          THEN RegistryFile(add_to_registry(registry_json,
                                            PathOf(add_path[1], add_path[2])).registries)
          ELSE registry_json
    /\ add_result' = AddResult(TRUE, "")
    /\ pc' = "added"
    /\ UNCHANGED <<add_path, descriptors>>
    /\ AddFrame

\* lines 199-203 and 220-223: add_to_registry raises, json.load on a file
\* that does not parse or the writing of the file, which is then incomplete
AddUpdateRegistryFails ==
    /\ pc = "add_registry"
    /\ registry_json.exists
    /\ registry_json' = IF registry_json.parses
                        THEN BadFile
                        ELSE registry_json
    /\ add_result' = AddResult(FALSE, IF registry_json.parses
                                      THEN "Failed to add server"
                                      ELSE "ValueError")
    /\ pc' = "added"
    /\ UNCHANGED <<add_path, descriptors>>
    /\ AddFrame

NextAddServer ==
    \/ AddParse
    \/ AddWriteDescriptor
    \/ AddWriteFails
    \/ AddUpdateRegistry
    \/ AddUpdateRegistryFails

SpecAddServer == InitAddServer /\ [][NextAddServer]_vars

----------------------------------------------------------------------------
(* adder.py: add_to_registry, called up to MaxAdds times on one             *)
(* registry.json                                                            *)

\* the relative paths add_server passes
AddPaths == {PathOf(<<"a">>, <<"a">>), PathOf(<<"a">>, <<"b">>), PathOf(<<"b">>, <<"a">>)}

\* the documents registry.json holds before the first call: no registry, a
\* remote one only, a private one without paths, a private one that is not
\* named "private" after a remote one, two private ones, and a private one
\* whose list was written by hand with a path twice
AddDocuments ==
    {<<>>,
     <<RegistryEntry("pub1", "public", <<>>)>>,
     <<RegistryEntry("private", "private", <<>>)>>,
     <<RegistryEntry("pub1", "public", <<>>),
       RegistryEntry("internal", "private", <<PathOf(<<"a">>, <<"a">>)>>)>>,
     <<RegistryEntry("private", "private",
                     <<PathOf(<<"a">>, <<"b">>), PathOf(<<"a">>, <<"a">>)>>),
       RegistryEntry("second", "private", <<>>)>>,
     <<RegistryEntry("private", "private",
                     <<PathOf(<<"a">>, <<"a">>), PathOf(<<"a">>, <<"a">>)>>)>>}

InitAddToRegistry ==
    /\ pc = "add_to_registry"
    /\ all_servers = <<>>
    /\ arg_name = <<>>
    /\ registry_json \in {RegistryFile(registries) : registries \in AddDocuments}
    /\ InitRest

\* lines 131-159: the file is read, the path is added to the first private
\* registry, the file is written; appended keeps the paths that a call put
\* into the document
CallAddToRegistry ==
    /\ pc = "add_to_registry"
    /\ adds < MaxAdds
    /\ \E server_relative_path \in AddPaths :
          LET registry == add_to_registry(registry_json, server_relative_path)
          IN /\ registry_json' = RegistryFile(registry.registries)
             /\ appended' = IF registry.registries # registry_json.registries
                            THEN Append(appended, server_relative_path)
                            ELSE appended
             /\ last_path' = server_relative_path
    /\ adds' = adds + 1
    /\ UNCHANGED <<pc, arg_name, add_path, add_result, descriptors>>
    /\ UNCHANGED <<cliVars, walkVars, accVars, fetchVars, histVars, netVars>>
    /\ UNCHANGED <<producers, listVars, sideVars>>

NextAddToRegistry == CallAddToRegistry

SpecAddToRegistry == InitAddToRegistry /\ [][NextAddToRegistry]_vars

----------------------------------------------------------------------------
(* registry.py: cmd_add, called once for every name argument of at most     *)
(* MaxNameLen characters, every transport and every url_or_command          *)

\* adder.py lines 162-172: the parameters of add_server
add_server_parameters ==
    {"name", "transport", "url", "command", "description", "env_vars",
     "root_dir", "quiet", "json_output"}

\* registry.py lines 140-151: the keyword arguments of the call
cmd_add_keywords ==
    {"name", "transport", "url", "command", "description", "env_vars",
     "root_dir", "quiet", "json_output", "registry_name"}

\* adder.py lines 174-218: what add_server returns when no file operation
\* raises
add_server_returns(name, transport, url, command) ==
    IF parse_name(name).raised = "ValueError" THEN AddResult(FALSE, "ValueError")
    ELSE IF transport \in {"sse", "streamable-http"} /\ url = ""
    THEN AddResult(FALSE, "URL required")
    ELSE IF transport = "stdio" /\ command = <<>>
    THEN AddResult(FALSE, "Command required")
    ELSE AddResult(TRUE, "")

InitCmdAdd ==
    /\ pc = "cmd_add"
    /\ all_servers = <<>>
    /\ arg_name \in SeqsUpTo(Chars, MaxNameLen)
    /\ registry_json \in {NoFile, RegistryFile(<<RegistryEntry("private", "private", <<>>)>>)}
    /\ InitRest

\* registry.py lines 125-152: the arguments are prepared and add_server is
\* called with the keyword arguments of lines 141-150. A call with a keyword
\* that is not a parameter raises TypeError before the body of add_server
\* runs; cmd_add does not catch it and returns nothing.
CmdAdd ==
    /\ pc = "cmd_add"
    /\ \E transport \in Transports,
          url_or_command \in {<<>>, <<"https://example.com/sse">>,
                              <<"--", "npx", "pkg">>} :
          LET url_or_cmd == IF url_or_command # <<>> /\ url_or_command[1] = "--"
                            THEN Tail(url_or_command)
                            ELSE url_or_command
              remote == transport \in {"sse", "streamable-http"}
              url == IF remote /\ url_or_cmd # <<>> THEN url_or_cmd[1] ELSE ""
              command == IF remote THEN <<>> ELSE url_or_cmd
              result == add_server_returns(arg_name, transport, url, command)
              parsed == parse_name(arg_name)
              relative_path == PathOf(parsed.author, parsed.server_name)
          IN IF cmd_add_keywords \subseteq add_server_parameters
             THEN /\ add_result' = result
                  /\ add_path' = IF result.success
                                 THEN <<parsed.author, parsed.server_name>>
                                 ELSE add_path
                  /\ descriptors' = IF result.success
                                    THEN descriptors \cup {Descriptor(relative_path, "written")}
                                    ELSE descriptors
                  /\ registry_json' =
                        IF result.success /\ registry_json.exists
                        THEN RegistryFile(add_to_registry(registry_json, relative_path).registries)
                        ELSE registry_json
                  /\ exit_code' = IF result.success THEN 0 ELSE 1
                  /\ pc' = "exit"
             ELSE /\ pc' = "TypeError"
                  /\ UNCHANGED <<add_result, add_path, descriptors, registry_json,
                                 exit_code>>
    /\ UNCHANGED <<valid, written, output, file, reread>>
    /\ UNCHANGED <<walkVars, accVars, fetchVars, histVars, netVars>>
    /\ UNCHANGED <<producers, listVars, sideVars>>
    /\ UNCHANGED <<arg_name, appended, last_path, adds>>

SpecCmdAdd == InitCmdAdd /\ [][CmdAdd]_vars

----------------------------------------------------------------------------
(* fetcher.py: fetch_server_version on its own, for every server name of at *)
(* most MaxSegLen characters                                                *)

InitVersion ==
    /\ pc = "version"
    /\ all_servers = <<>>
    /\ arg_name = <<>>
    /\ registry_json = NoFile
    /\ InitRest

\* lines 56-65: the call with its arguments; the url is built and
\* requests.get is called with it
CallFetchVersion ==
    /\ pc = "version"
    /\ \E base_url \in BaseUrls, server_name \in SeqsUpTo(QuoteChars, MaxSegLen),
          version \in {"latest", "1.0"} :
          /\ req' = Request("version", None, server_name, version)
          /\ version_url' = VersionUrl(base_url, server_name, version)
    /\ pc' = "requested"
    /\ UNCHANGED <<issued, failed>>
    /\ UNCHANGED <<cliVars, walkVars, accVars, fetchVars, histVars>>
    /\ UNCHANGED <<producers, listVars, addVars, valVars>>

SpecVersion == InitVersion /\ [][CallFetchVersion]_vars

----------------------------------------------------------------------------
(* validator.py: validate_all, called once in a process, on every state of  *)
(* config.json, registry.json and the private descriptors                   *)
(* (tests/test_validator.py)                                                *)

ValPaths == {PathOf(<<"a">>, <<"a">>), PathOf(<<"a">>, <<"b">>)}

ValDocuments ==
    {<<RegistryEntry("private", "private",
                     <<PathOf(<<"a">>, <<"a">>), PathOf(<<"a">>, <<"b">>)>>)>>,
     <<RegistryEntry("pub1", "public", <<>>),
       RegistryEntry("internal", "private", <<PathOf(<<"a">>, <<"b">>)>>),
       RegistryEntry("private", "private",
                     <<PathOf(<<"a">>, <<"a">>), PathOf(<<"a">>, <<"b">>)>>)>>,
     <<RegistryEntry("pub1", "public", <<PathOf(<<"a">>, <<"a">>)>>)>>}

ServerFiles ==
    {ServerFile("missing", "", {}), ServerFile("invalid_json", "", {}),
     ServerFile("json", "", {}),
     ServerFile("json", "https://u1/server.schema.json", {}),
     ServerFile("json", "https://u1/server.schema.json", {"s2"}),
     ServerFile("json", "https://u2/server.schema.json", {"s1", "s2"})}

\* everything validate_all leaves alone in every step
ValFrame ==
    /\ UNCHANGED <<cliVars, reg, accVars, fetchVars, histVars, netVars>>
    /\ UNCHANGED <<producers, listVars, addVars>>
    /\ UNCHANGED <<config_json, conforms, server_json, version_url>>

InitValidate ==
    /\ pc = "validate_all"
    /\ all_servers = <<>>
    /\ arg_name = <<>>
    /\ config_json \in {"missing", "invalid_json", "violates", "conforms"}
    /\ registry_json \in {NoFile, BadFile}
                           \cup {RegistryFile(registries) : registries \in ValDocuments}
    /\ conforms \in IF registry_json.parses THEN BOOLEAN ELSE {FALSE}
    /\ server_json \in [ValPaths -> ServerFiles]
    /\ schema_cache = <<>>
    /\ gets = <<>>
    /\ returned = <<>>
    /\ v_errors = <<>>
    /\ validated = <<>>
    /\ InitCore

\* lines 173-175 as a bug would write them: `if not result.is_valid`, the
\* errors of config.json stop the validation too
ValidateFiles_GatesOnResult ==
    /\ pc = "validate_all"
    /\ LET config_result == validate_config(config_json)
           registry_result == validate_registry(registry_json, conforms)
       IN /\ v_errors' = config_result \o registry_result
          /\ IF v_errors' # <<>>
             THEN pc' = "validated" /\ UNCHANGED <<i, j>>
             ELSE pc' = "servers" /\ i' = 1 /\ j' = 0
    /\ UNCHANGED <<schema_cache, gets, returned, validated>>
    /\ ValFrame

\* lines 155-179: config.json and registry.json are validated; the
\* descriptors are looked at only when registry.json gave no error
ValidateFiles ==
    /\ pc = "validate_all"
    /\ LET config_result == validate_config(config_json)
           registry_result == validate_registry(registry_json, conforms)
       IN /\ v_errors' = config_result \o registry_result
          /\ IF registry_result # <<>>
             THEN pc' = "validated" /\ UNCHANGED <<i, j>>
             ELSE pc' = "servers" /\ i' = 1 /\ j' = 0
    /\ UNCHANGED <<schema_cache, gets, returned, validated>>
    /\ ValFrame

\* lines 182-184: the next registry is taken when this one is not private
\* or has no path left
NextRegistry ==
    /\ pc = "servers"
    /\ i <= Len(registry_json.registries)
    /\ \/ registry_json.registries[i].type # "private"
       \/ j = Len(registry_json.registries[i].servers_relative_path)
    /\ i' = i + 1
    /\ j' = 0
    /\ UNCHANGED <<pc, valVars>>
    /\ ValFrame

\* the path validate_all is at
rel_path == registry_json.registries[i].servers_relative_path[j + 1]

AtPath ==
    /\ pc = "servers"
    /\ i <= Len(registry_json.registries)
    /\ registry_json.registries[i].type = "private"
    /\ j < Len(registry_json.registries[i].servers_relative_path)

\* lines 185-187 and 120-138: a descriptor that is missing, is not JSON or
\* has no "$schema" gives one error
ValidateServerFile ==
    /\ AtPath
    /\ LET server_data == server_json[rel_path]
       IN /\ server_data.state # "json" \/ server_data.schema_url = ""
          /\ v_errors' = Append(v_errors,
                 VError(rel_path, "",
                        IF server_data.state = "missing" THEN "File not found"
                        ELSE IF server_data.state = "invalid_json" THEN "Invalid JSON"
                        ELSE "Missing '$schema' field"))
    /\ validated' = Append(validated, rel_path)
    /\ j' = j + 1
    /\ UNCHANGED <<pc, i, schema_cache, gets, returned>>
    /\ ValFrame

\* lines 142-144 and 51-52: the schema is in the cache
CacheHit ==
    /\ AtPath
    /\ LET server_data == server_json[rel_path]
           url == server_data.schema_url
       IN /\ server_data.state = "json"
          /\ url # ""
          /\ url \in DOMAIN schema_cache
          /\ returned' = Append(returned, [url |-> url, schema |-> schema_cache[url]])
          /\ v_errors' = v_errors \o
                 validate_against_schema(server_data, schema_cache[url], rel_path)
    /\ validated' = Append(validated, rel_path)
    /\ j' = j + 1
    /\ UNCHANGED <<pc, i, schema_cache, gets>>
    /\ ValFrame

\* lines 142 and 51-54: the schema is not in the cache, requests.get is called
CacheMiss ==
    /\ AtPath
    /\ LET server_data == server_json[rel_path]
           url == server_data.schema_url
       IN /\ server_data.state = "json"
          /\ url # ""
          /\ url \notin DOMAIN schema_cache
          /\ gets' = Append(gets, url)
    /\ validated' = Append(validated, rel_path)
    /\ pc' = "get"
    /\ UNCHANGED <<i, j, schema_cache, returned, v_errors>>
    /\ ValFrame

\* lines 55-58 as a bug would write them: the schema is returned and not
\* stored
GetSchema_NoStore ==
    /\ pc = "get"
    /\ \E schema \in Schemas :
          LET url == server_json[rel_path].schema_url
          IN /\ returned' = Append(returned, [url |-> url, schema |-> schema])
             /\ v_errors' = v_errors \o
                    validate_against_schema(server_json[rel_path], schema, rel_path)
    /\ pc' = "servers"
    /\ j' = j + 1
    /\ UNCHANGED <<i, gets, validated, schema_cache>>
    /\ ValFrame

\* lines 55-58 and 143-144: the response is a schema; it is cached and the
\* descriptor is validated against it
GetSchema ==
    /\ pc = "get"
    /\ \E schema \in Schemas :
          LET url == server_json[rel_path].schema_url
          IN /\ schema_cache' =
                  [u \in DOMAIN schema_cache \cup {url} |->
                      IF u = url THEN schema ELSE schema_cache[u]]
             /\ returned' = Append(returned, [url |-> url, schema |-> schema])
             /\ v_errors' = v_errors \o
                    validate_against_schema(server_json[rel_path], schema, rel_path)
    /\ pc' = "servers"
    /\ j' = j + 1
    /\ UNCHANGED <<i, gets, validated>>
    /\ ValFrame

\* lines 54-56 and 145-148: requests.get or raise_for_status raises a
\* RequestException, or response.json() a decoding error
GetFails ==
    /\ pc = "get"
    /\ \E message \in {"Failed to fetch schema", "Invalid schema JSON"} :
          v_errors' = Append(v_errors, VError(rel_path, "$schema", message))
    /\ pc' = "servers"
    /\ j' = j + 1
    /\ UNCHANGED <<i, schema_cache, gets, returned, validated>>
    /\ ValFrame

\* line 189
ValidateReturns ==
    /\ pc = "servers"
    /\ i > Len(registry_json.registries)
    /\ pc' = "validated"
    /\ UNCHANGED <<i, j, valVars>>
    /\ ValFrame

NextValidate ==
    \/ ValidateFiles
    \/ NextRegistry
    \/ ValidateServerFile
    \/ CacheHit
    \/ CacheMiss
    \/ GetSchema
    \/ GetFails
    \/ ValidateReturns

SpecValidate == InitValidate /\ [][NextValidate]_vars

----------------------------------------------------------------------------
(* Properties *)

\* compile_registry has returned its result
Returned == pc \in {"returned", "exit"}

Last(s) == s[Len(s)]

\* positions of the entries of s named name
Occurrences(s, name) == {m \in 1..Len(s) : s[m].name = name}

FirstOccurrence(s, name) ==
    CHOOSE m \in Occurrences(s, name) : \A q \in Occurrences(s, name) : m <= q

LastOccurrence(s, name) ==
    CHOOSE m \in Occurrences(s, name) : \A q \in Occurrences(s, name) : q <= m

\* the r-th smallest element of a finite set of numbers
Nth(S, r) == CHOOSE m \in S : Cardinality({q \in S : q <= m}) = r

\* C1: when a request of the remote registry at position i fails,
\* compile_registry returns at once: the fetch error, carrying the registry's
\* name, is the last error and only load errors precede it, the conflict
\* check has not run, the returned entry list is empty even if entries were
\* collected, and nothing is loaded, fetched or collected afterwards.
C1_AbortedResult ==
    failed =>
        /\ Returned
        /\ errors # <<>>
        /\ Last(errors).kind = "fetch"
        /\ \A m \in 1..(Len(errors) - 1) : errors[m].kind = "load"
        /\ ~checked
        /\ result_servers = <<>>

C1_AbortStep ==
    /\ (~failed /\ failed') =>
          /\ errors' = Append(errors, FetchErrorMsg(reg.name))
          /\ pc' = "returned"
          /\ UNCHANGED <<i, all_servers, result_servers, checked>>
    /\ failed =>
          UNCHANGED <<i, reg, j, all_servers, errors, result_servers, checked,
                      fetchVars, histVars, netVars>>

C1_FetchErrorAborts == []C1_AbortedResult /\ [][C1_AbortStep]_vars

\* C1 witness: the second registry's fetch failed after the first registry
\* had produced an entry and a load error
C1_Witness ==
    /\ failed
    /\ pc = "returned"
    /\ i = 2
    /\ Len(all_servers) >= 1
    /\ Len(errors) = 2
    /\ errors[1].kind = "load"

\* C2: a descriptor that cannot be loaded appends exactly one load error,
\* adds no entry and does not stop the walk: the path loop is left only
\* after its last path, to the next registry, and a result that holds a load
\* error is not successful.
C2_LoadStep ==
    /\ (pc = "load" /\ all_servers' = all_servers) =>
          /\ errors' = Append(errors, LoadError(reg.servers_relative_path[j + 1]))
          /\ ~failed'
    /\ (pc = "load") =>
          IF j + 1 < Len(reg.servers_relative_path)
          THEN pc' = "load" /\ j' = j + 1 /\ reg' = reg
          ELSE pc' = "walk"

C2_LoadErrorFails ==
    (Returned /\ \E m \in 1..Len(errors) : errors[m].kind = "load") =>
        /\ ~is_success(errors)
        /\ result_servers = <<>>
        /\ written = 0
        /\ pc = "exit" => exit_code = 1

C2_LoadErrorContinues == []C2_LoadErrorFails /\ [][C2_LoadStep]_vars

\* C2 witness: the first path of the first registry could not be loaded, its
\* second path was loaded, the second registry was fetched, and the result
\* is not successful
C2_Witness ==
    /\ pc = "returned"
    /\ checked
    /\ errors = <<LoadError(<<1, 1>>)>>
    /\ Len(all_servers) >= 2
    /\ origins[1] = "private"
    /\ origins[2] = "public"

\* C3: whenever an entry loaded from a registry of type "private" has the
\* name of another collected entry, the result of the completed walk has a
\* conflict error and no entries.
C3_PrivateNeverShadowed ==
    (Returned /\ checked) =>
        \A a, b \in 1..Len(all_servers) :
            (a # b /\ origins[a] = "private"
                   /\ all_servers[a].name = all_servers[b].name) =>
                /\ \E m \in 1..Len(errors) : errors[m].kind = "conflict"
                /\ result_servers = <<>>

\* entries of s that check_conflicts must report: the name occurred before,
\* and the entry or the first entry of that name is "private"
Reported(s) ==
    {m \in 1..Len(s) :
        /\ FirstOccurrence(s, s[m].name) < m
        /\ \/ s[m].source = "private"
           \/ s[FirstOccurrence(s, s[m].name)].source = "private"}

\* C4: check_conflicts returns, in list order, exactly one error for each
\* entry whose name occurred earlier and for which that entry or the first
\* entry of that name is "private", naming both sources, and no other error;
\* without a "private" entry it returns none.
C4_CheckConflictsExact ==
    pc = "conflicts_done" =>
        /\ Len(errors) = Cardinality(Reported(all_servers))
        /\ \A r \in 1..Len(errors) :
              LET m == Nth(Reported(all_servers), r)
                  first == all_servers[FirstOccurrence(all_servers, all_servers[m].name)]
              IN errors[r] = ConflictError(all_servers[m].name, first.source,
                                           all_servers[m].source)
        /\ (\A m \in 1..Len(all_servers) : all_servers[m].source # "private")
              => errors = <<>>

\* C4 witness: pub1, pub2 and private have the same name: one error, naming
\* pub1 (the first entry seen) and private
C4_Witness ==
    /\ pc = "conflicts_done"
    /\ Len(all_servers) = 3
    /\ all_servers[1].source = "pub1"
    /\ all_servers[2].source = "pub2"
    /\ all_servers[3].source = "private"
    /\ all_servers[1].name = all_servers[2].name
    /\ all_servers[2].name = all_servers[3].name
    /\ errors = <<ConflictError(all_servers[3].name, "pub1", "private")>>

\* C5: when compile_registry succeeds, every name of the concatenated list
\* has exactly one entry in the result, and it is the last entry of that
\* name in the concatenated list; the result has no other entry.
C5_LastWriteWins ==
    (Returned /\ checked /\ is_success(errors)) =>
        /\ \A m \in 1..Len(all_servers) :
              LET name == all_servers[m].name
              IN /\ Cardinality(Occurrences(result_servers, name)) = 1
                 /\ result_servers[FirstOccurrence(result_servers, name)]
                       = all_servers[LastOccurrence(all_servers, name)]
        /\ \A r \in 1..Len(result_servers) :
              Occurrences(all_servers, result_servers[r].name) # {}

\* C5 witness: pub1 and then pub2 produced the same name; the result holds
\* the entry of pub2
C5_Witness ==
    /\ pc = "returned"
    /\ is_success(errors)
    /\ Len(all_servers) = 2
    /\ all_servers[1].name = all_servers[2].name
    /\ all_servers[1].source = "pub1"
    /\ all_servers[2].source = "pub2"
    /\ Len(result_servers) = 1
    /\ result_servers[1].source = "pub2"

\* C6: the names of the entries of a result, and of a written output, are
\* pairwise distinct.
C6_UniqueNames ==
    /\ \A a, b \in 1..Len(result_servers) :
          a # b => result_servers[a].name # result_servers[b].name
    /\ \A a, b \in 1..Len(output) :
          a # b => output[a].name # output[b].name

\* C6 witness: a successful result of two names made of three collected
\* entries
C6_Witness ==
    /\ pc = "returned"
    /\ Len(all_servers) = 3
    /\ Len(result_servers) = 2

\* C7: a result is successful iff it has no error, and a result with an
\* error has no entry.
C7_ErrorsMeanNoEntries ==
    Returned =>
        /\ is_success(errors) <=> errors = <<>>
        /\ errors # <<>> => result_servers = <<>>
        /\ (checked /\ errors = <<>> /\ all_servers # <<>>) => result_servers # <<>>

\* C7 witness: the walk completed with entries and a conflict, and the
\* result has the error and no entry
C7_Witness ==
    /\ pc = "returned"
    /\ checked
    /\ Len(all_servers) >= 2
    /\ errors # <<>>
    /\ Last(errors).kind = "conflict"
    /\ result_servers = <<>>

\* C8: the compile command writes only after validation passed and
\* compilation had no error.  Validation failed: 1, compile_registry not
\* called, nothing requested, nothing written.  Compilation failed: 1,
\* nothing written.  Otherwise: the result is written once, 0.
C8_WriteOnlyOnSuccess ==
    /\ written <= 1
    /\ written = 1 => (valid /\ checked /\ errors = <<>> /\ output = result_servers)
    /\ pc # "exit" => (exit_code = -1 /\ written = 0)
    /\ pc = "exit" =>
          /\ ~valid =>
                /\ exit_code = 1
                /\ written = 0
                /\ ~checked /\ ~failed
                /\ i = 0 /\ pages = 0 /\ issued = {} /\ req = NoReq
          /\ (valid /\ errors # <<>>) => (exit_code = 1 /\ written = 0)
          /\ (valid /\ errors = <<>>) => (exit_code = 0 /\ written = 1)

\* C8 witness: a successful run wrote two entries and returned 0
C8_Witness ==
    /\ pc = "exit"
    /\ exit_code = 0
    /\ written = 1
    /\ Len(output) = 2

\* C9: a request of fetch_from_public_registry that fails, whichever request
\* it is, ends the fetch with a FetchError carrying the registry's name, and
\* no entry collected for that registry reaches all_servers.
C9_FailStep ==
    (pc = "await" /\ ~failed /\ failed') =>
        /\ errors' = Append(errors, FetchErrorMsg(reg.name))
        /\ reg.name \in RemoteNames
        /\ all_servers' = all_servers
        /\ origins' = origins
        /\ result_servers' = <<>>
        /\ dropped' = Len(results)
        /\ results' = <<>>
        /\ pc' = "returned"

C9_FetchErrorDiscards == [][C9_FailStep]_vars

\* C9 witness: the request of a page after the first failed when an entry
\* had been collected for the registry
C9_Witness ==
    /\ failed
    /\ req.kind = "list"
    /\ req.cursor # None
    /\ dropped >= 1

\* C10: no request is sent again: every request of a fetch is sent from a
\* site (a listing page, a listed record, an exact key) that has not sent
\* before, at most one request fails, and after it no request is sent.
C10_AfterFailure ==
    failed => (Returned /\ pc # "await")

C10_SendStep ==
    /\ (pc # "await" /\ pc' = "await") => Cardinality(issued') = Cardinality(issued) + 1
    /\ (pc = "await" /\ pc' = "await") => UNCHANGED <<req, issued>>
    /\ failed => UNCHANGED <<req, issued, pages, errors>>

C10_NoRetry == []C10_AfterFailure /\ [][C10_SendStep]_vars

\* C10 witness: the third request of the second registry's fetch failed
C10_Witness ==
    /\ failed
    /\ i = 2
    /\ Cardinality(issued) = 3

\* C11: in fetch_server_list the first listing request carries no cursor and
\* each later one carries the nextCursor of the response just before it; a
\* page is asked for only after every record of the page before was yielded;
\* no request follows a response without nextCursor, so a stream that has
\* ended made as many requests as it got pages and yielded the records of
\* all pages in page order; and a stream that was started ends.
C11_Chain ==
    /\ sent # <<>> => sent[1] = None
    /\ \A p \in 2..Len(sent) : Truthy(cursors[p - 1]) /\ sent[p] = cursors[p - 1]
    /\ \A p \in 1..(Len(cursors) - 1) : Truthy(cursors[p])
    /\ (pc = "await" /\ req.kind = "list") =>
          /\ Len(sent) = Len(cursors) + 1
          /\ req.cursor = Last(sent)
          /\ stream = received
    /\ (pc = "list0") => (sent = <<>> /\ cursors = <<>>)
    /\ (pc \in {"list", "exact"} \/ (pc = "await" /\ req.kind # "list")) =>
          /\ Len(sent) = Len(cursors)
          /\ received = stream \o page
    /\ pc = "exact" /\ sent # <<>> =>
          /\ ~Truthy(Last(cursors))
          /\ stream = received

C11_CursorPagination ==
    /\ []C11_Chain
    /\ (pc = "list0") ~> (failed \/ pc \in {"exact", "walk"})

\* C11 witness: a listing of two pages holding two records has been
\* streamed to its end
C11_Witness ==
    /\ pc = "list"
    /\ page = <<>>
    /\ Len(cursors) = 2
    /\ Truthy(cursors[1])
    /\ ~Truthy(cursors[2])
    /\ sent = <<None, cursors[1]>>
    /\ Len(stream) = 2
    /\ stream = received

\* the record a listing holds for a name
ListedRecord(name) == WrappedData(name, FileVersion)

RECURSIVE StarEntries(_, _, _)
\* one entry for each name of names that is not in exclude, in order, with
\* the listed record as data
StarEntries(names, exclude, registry_name) ==
    IF names = <<>> THEN <<>>
    ELSE LET rest == StarEntries(Tail(names), exclude, registry_name)
             name == Head(names)
         IN IF name \in exclude
            THEN rest
            ELSE <<[name |-> name, version |-> ListedRecord(name).server.version,
                    data |-> ListedRecord(name), source |-> registry_name]>> \o rest

\* C12: with servers == "*" the entries collected by
\* fetch_from_public_registry are, at every point of the stream, one entry
\* for each streamed record whose name is not excluded, in listing order,
\* with the listed record as data; and what the call returns is that list
\* for the whole listing.
C12_Collected ==
    reg.all => results = StarEntries(stream, reg.exclude, reg.name)

C12_ReturnStep ==
    (reg.all /\ pc = "list" /\ pc' = "walk") =>
        all_servers' = all_servers \o StarEntries(received, reg.exclude, reg.name)

C12_StarReturnsListing == []C12_Collected /\ [][C12_ReturnStep]_vars

\* C12 witness: with servers == "*", a listing of an excluded name and
\* another name has been streamed to its end and one entry was collected
C12_Witness ==
    /\ pc = "list"
    /\ reg.all
    /\ reg.exclude = {NameABX}
    /\ page = <<>>
    /\ ~Truthy(cursor)
    /\ stream = <<NameABX, NameAY>>
    /\ Len(results) = 1
    /\ results[1].name = NameAY
    /\ results[1].data = ListedRecord(NameAY)

\* the keys of a servers mapping that end in "/*" and whose author prefix
\* the name starts with, as positions in the mapping
Matches(servers_config, name) ==
    {m \in 1..Len(servers_config) :
        LET key == servers_config[m].key
        IN /\ EndsWithSlashStar(key)
           /\ StartsWith(name, SubSeq(key, 1, Len(key) - 1))}

HasWildcard(servers_config) ==
    \E m \in 1..Len(servers_config) : EndsWithSlashStar(servers_config[m].key)

\* the version configured for the first key of the mapping that matches
WildVersion(servers_config, name) ==
    LET hits == Matches(servers_config, name)
    IN servers_config[CHOOSE m \in hits : \A q \in hits : m <= q].version

RECURSIVE WildEntries(_, _, _)
\* one entry for each name of names that some wildcard key matches, in
\* order, resolved at the version of the first matching key
WildEntries(names, servers_config, registry_name) ==
    IF names = <<>> THEN <<>>
    ELSE LET rest == WildEntries(Tail(names), servers_config, registry_name)
             name == Head(names)
         IN IF Matches(servers_config, name) = {}
            THEN rest
            ELSE LET version == ResolvedVersion(WildVersion(servers_config, name))
                 IN <<[name |-> name, version |-> version,
                       data |-> WrappedData(name, version),
                       source |-> registry_name]>> \o rest

Front(q) == SubSeq(q, 1, Len(q) - 1)

\* C13: when the servers mapping has a key ending in "/*", the listing is
\* streamed once, whatever the number of such keys; each streamed record
\* whose name starts with an author prefix gets exactly one
\* version-resolution request, at the version of the first matching key in
\* mapping order, and one entry; a record that matches no prefix gets no
\* request and no entry; so the wildcard pass produces exactly the listed
\* names that start with some prefix, in listing order.
C13_WildcardPass ==
    HasWildcard(reg.servers) =>
        LET wild == pc = "await" /\ req.kind = "wild"
            after == pc = "exact" \/ (pc = "await" /\ req.kind = "exact")
            resolved == WildEntries(IF wild THEN Front(stream) ELSE stream,
                                    reg.servers, reg.name)
        IN /\ Cardinality({p \in 1..Len(sent) : sent[p] = None}) <= 1
           /\ {site \in issued : site[1] = "wild"} =
                 {<<"wild", p>> : p \in {q \in 1..Len(stream) :
                                             Matches(reg.servers, stream[q]) # {}}}
           /\ wild =>
                 /\ Matches(reg.servers, Last(stream)) # {}
                 /\ req.name = Last(stream)
                 /\ req.version = WildVersion(reg.servers, Last(stream))
           /\ ~after => results = resolved
           /\ after =>
                 /\ Cardinality({p \in 1..Len(sent) : sent[p] = None}) = 1
                 /\ stream = received
                 /\ Len(results) >= Len(resolved)
                 /\ SubSeq(results, 1, Len(resolved)) = resolved

\* C13 witness: with the keys "a/b/*" at 1.0 and "a/*" at latest, the names
\* a/y and a/b/x were listed; a/b/x, which both keys match, was resolved
\* once, at 1.0
C13_Witness ==
    /\ pc = "exact"
    /\ reg.servers = <<Rule(KeyAB, "1.0"), Rule(KeyA, "latest")>>
    /\ stream = <<NameAY, NameABX>>
    /\ Len(results) = 2
    /\ results[1].version = "2.0"
    /\ results[2].version = "1.0"
    /\ Cardinality(issued) = Len(sent) + 2

\* one entry for each key of the mapping that does not end in "/*" and is
\* not in exclude, in mapping order, resolved at the key's version
ExactEntries(servers_config, exclude, registry_name) ==
    LET F[m \in 0..Len(servers_config)] ==
            IF m = 0 THEN <<>>
            ELSE LET key == servers_config[m].key
                     version == ResolvedVersion(servers_config[m].version)
                 IN IF EndsWithSlashStar(key) \/ key \in exclude
                    THEN F[m - 1]
                    ELSE Append(F[m - 1],
                                [name |-> key, version |-> version,
                                 data |-> WrappedData(key, version),
                                 source |-> registry_name])
    IN F[Len(servers_config)]

C15_SourceIsRegistryName ==
    /\ \A m \in 1..Len(results) : results[m].source = reg.name
    /\ Len(producers) = Len(all_servers)
    /\ \A m \in 1..Len(all_servers) : all_servers[m].source = producers[m].name
    /\ \A r \in 1..Len(result_servers) :
          \E m \in 1..Len(all_servers) : result_servers[r] = all_servers[m]
    /\ \A r \in 1..Len(output) :
          \E m \in 1..Len(all_servers) : output[r] = all_servers[m]

\* C15 witness: a result with an entry of the private registry "internal"
\* and an entry of the remote registry "pub2"
C15_Witness ==
    /\ pc = "returned"
    /\ Len(result_servers) = 2
    /\ result_servers[1].source = "internal"
    /\ origins[1] = "private"
    /\ result_servers[2].source = "pub2"
    /\ origins[2] = "public"

\* C16: in the written file, the element of an entry whose data has a
\* "server" key has the keys of the data and "_source" and no other key,
\* with "_source" the entry's source and every other key, "server" among
\* them, as in the data; the element of any other entry is the data under
\* "server", a "_meta" block under the registry label with status "active",
\* isLatest true and publishedAt equal to updatedAt, and "_source" the
\* entry's source; the timestamp is the same in all elements of a file.
C16_WrapByShape ==
    pc \in {"written", "reread"} =>
        LET servers == json_load(file).servers
        IN /\ Len(servers) = Len(output)
           /\ \E registry_name \in Labels, now \in Times :
                 \A m \in 1..Len(output) :
                    LET data == output[m].data
                    IN IF "server" \in DOMAIN data
                       THEN /\ DOMAIN servers[m] = DOMAIN data \cup {"_source"}
                            /\ servers[m]["_source"] = output[m].source
                            /\ servers[m]["server"] = data["server"]
                            /\ \A key \in DOMAIN data \ {"_source"} :
                                  servers[m][key] = data[key]
                       ELSE servers[m] =
                              [server |-> data,
                               _meta |-> (registry_name :>
                                            [status |-> "active",
                                             publishedAt |-> now,
                                             updatedAt |-> now,
                                             isLatest |-> TRUE]),
                               _source |-> output[m].source]

\* C16 witness: a file written for a flattened entry, a wrapped entry and
\* a wrapped entry that came with a _source of its own
C16_Witness ==
    /\ pc = "written"
    /\ Len(output) = 3
    /\ DOMAIN output[1].data = {"name", "version"}
    /\ DOMAIN output[2].data = {"server"}
    /\ DOMAIN output[3].data = {"server", "_meta", "_source"}
    /\ output[3].source = "pub1"
    /\ json_load(file).servers[3]["_source"] = "pub1"

\* C17: the written document has one element per input entry, in input
\* order, each the wrapping of its entry, and a count equal to the number
\* of elements; the document read back from the file is the document that
\* was written, so its count is the length of its servers, also for the
\* empty list.
C17_CountRoundTrip ==
    /\ pc \in {"written", "reread"} =>
          /\ file # <<>>
          /\ Len(TokensOf(file, "element")) = Len(output)
          /\ \E registry_name \in Labels, now \in Times :
                \A m \in 1..Len(output) :
                   TokensOf(file, "element")[m].value
                      = wrap_server(output[m], registry_name, now)
          /\ TokensOf(file, "number")[1].value = Len(output)
    /\ pc = "reread" =>
          /\ reread.metadata.count = Len(reread.servers)
          /\ Len(reread.servers) = Len(output)
          /\ json_dump(reread) = file

\* C17 witness: a file written for three entries, two of them of one name,
\* has been read back
C17_Witness ==
    /\ pc = "reread"
    /\ Len(output) = 3
    /\ output[1].name = output[2].name
    /\ reread.metadata.count = 3

\* (pos, ord) of a comes before (pos, ord) of b
Before(a, b) == a[1] < b[1] \/ (a[1] = b[1] /\ a[2] < b[2])

\* the errors check_conflicts gives for s: one for each reported entry, in
\* list order
ExpectedConflicts(s) ==
    [r \in 1..Cardinality(Reported(s)) |->
        LET m == Nth(Reported(s), r)
        IN ConflictError(s[m].name, s[FirstOccurrence(s, s[m].name)].source,
                         s[m].source)]

\* C18: the registries are processed one after the other in declared
\* order.  The position moves by one, and only when nothing of the registry
\* before is pending: no path left, no request in flight, no page or
\* record unread; every load is of a path of the registry at the current
\* position, paths in order; a request is sent only when none is in
\* flight.  The concatenated list is in registry order and, inside a
\* registry, in path or fetch order.  The error list is the load and fetch
\* errors in processing order, then, once the walk is complete, the
\* conflict errors in the order of the scan.
C18_Order ==
    /\ \A a, b \in 1..Len(producers) :
          a < b => Before(<<producers[a].pos, producers[a].ord>>,
                          <<producers[b].pos, producers[b].ord>>)
    /\ \A a \in 1..Len(producers) : producers[a].pos <= i
    /\ pc = "load" =>
          /\ \A m \in 1..Len(reg.servers_relative_path) :
                reg.servers_relative_path[m] = <<i, m>>
          /\ \A a \in 1..Len(producers) :
                Before(<<producers[a].pos, producers[a].ord>>, <<i, j + 1>>)
    /\ \A a, b \in 1..Len(errors) :
          /\ (a < b /\ errors[a].kind = "conflict") => errors[b].kind = "conflict"
          /\ (a < b /\ errors[a].kind = "fetch") => errors[b].kind = "conflict"
          /\ (a < b /\ errors[a].kind = "load" /\ errors[b].kind = "load") =>
                Before(errors[a].what, errors[b].what)
          /\ (pc = "load" /\ errors[a].kind = "load") =>
                Before(errors[a].what, <<i, j + 1>>)
    /\ checked =>
          SelectSeq(errors, LAMBDA e : e.kind = "conflict") = ExpectedConflicts(all_servers)
    /\ ~checked => \A a \in 1..Len(errors) : errors[a].kind # "conflict"
    /\ pc = "await" => req # NoReq
    /\ (pc # "await" /\ ~failed) => req = NoReq

C18_Step ==
    /\ i' # i =>
          /\ i' = i + 1
          /\ pc = "walk"
          /\ reg = NoReg /\ req = NoReq
          /\ results = <<>> /\ page = <<>> /\ ~Truthy(cursor)
    /\ (pc = "load" /\ pc' # "load") => j + 1 = Len(reg.servers_relative_path)
    /\ (pc = "load" /\ pc' = "load") => (j' = j + 1 /\ reg' = reg)
    /\ (~failed' /\ req' # req /\ req' # NoReq) => (pc # "await" /\ req = NoReq)
    /\ all_servers' # all_servers =>
          /\ Len(all_servers') > Len(all_servers)
          /\ SubSeq(all_servers', 1, Len(all_servers)) = all_servers

Blank(text) == \A m \in 1..Len(text) : text[m] = " "

\* t is text without the whitespace around it
TrimOf(t, text) ==
    /\ t # <<>>
    /\ t[1] # " "
    /\ t[Len(t)] # " "
    /\ \E a \in 0..Len(text) :
          /\ a + Len(t) <= Len(text)
          /\ SubSeq(text, a + 1, a + Len(t)) = t
          /\ \A m \in 1..a : text[m] = " "
          /\ \A m \in (a + Len(t) + 1)..Len(text) : text[m] = " "

\* the positions of the first "/" of a text: one position, or none
FirstSlash(text) ==
    {m \in 1..Len(text) : text[m] = "/" /\ \A q \in 1..(m - 1) : text[q] # "/"}

\* C19: parse_name splits its input at the first "/" only. An input with a
\* "/" and something other than whitespace on each side of the first "/"
\* gives (author, server name), each the part on its side with the whitespace
\* around it removed and so not empty; an input without "/", or with an empty
\* or blank part on a side, raises ValueError. add_server ends with a failure
\* result when parse_name raised, and goes on with the parsed pair otherwise.
C19_ParseName ==
    LET r == parse_name(arg_name)
        at == FirstSlash(arg_name)
    IN /\ IF at = {}
          THEN r = Raised("ValueError")
          ELSE LET p == CHOOSE m \in at : TRUE
                   left == SubSeq(arg_name, 1, p - 1)
                   right == SubSeq(arg_name, p + 1, Len(arg_name))
               IN IF Blank(left) \/ Blank(right)
                  THEN r = Raised("ValueError")
                  ELSE /\ r.raised = ""
                       /\ TrimOf(r.author, left)
                       /\ TrimOf(r.server_name, right)
                       /\ ~Contains(r.author, "/")
       /\ (pc = "added" /\ r.raised = "ValueError") =>
             add_result = AddResult(FALSE, "ValueError")
       /\ (pc # "add" /\ r.raised = "ValueError") =>
             (pc = "added" /\ descriptors = {} /\ add_path = <<>>)
       /\ pc \in {"add_write", "add_registry"} =>
             (r.raised = "" /\ add_path = <<r.author, r.server_name>>)
       /\ add_result.success => (r.raised = "" /\ add_path = <<r.author, r.server_name>>)

\* add_server succeeded for "a//b": the author is "a", the server name is
\* everything after the first "/", "/b"
C19_Witness ==
    /\ pc = "added"
    /\ add_result.success
    /\ arg_name = <<"a", "/", "/", "b">>
    /\ add_path = <<<<"a">>, <<"/", "b">>>>


\* text occurs in a list of paths
Occurs(path, paths) == \E m \in 1..Len(paths) : paths[m] = path

\* one call of add_to_registry with last_path' on the document registry_json
C20_Step ==
    adds' = adds + 1 =>
        LET old == registry_json.registries
            new == registry_json'.registries
            path == last_path'
            privates == {m \in 1..Len(old) : old[m].type = "private"}
        IN /\ IF privates = {}
              THEN new = Append(old, RegistryEntry("private", "private", <<path>>))
              ELSE LET t == CHOOSE m \in privates : \A q \in privates : m <= q
                       before == old[t].servers_relative_path
                       after == new[t].servers_relative_path
                   IN /\ Len(new) = Len(old)
                      /\ \A m \in 1..Len(old) : m # t => new[m] = old[m]
                      /\ new[t].name = old[t].name
                      /\ new[t].type = old[t].type
                      /\ Len(after) \in {Len(before), Len(before) + 1}
                      /\ SubSeq(after, 1, Len(before)) = before
                      /\ Occurs(path, after)
                      /\ Occurs(path, before) => new = old
           /\ (adds > 0 /\ path = last_path) => registry_json' = registry_json
           /\ Occurs(path, appended) => registry_json' = registry_json

\* C20: add_to_registry never duplicates a path. No path is twice among the
\* paths the calls appended; a call with the path of the call before it, or
\* with any path already in the private registry's list, leaves the document
\* as it was; when the document has no registry of type "private" the call
\* appends exactly one entry, named "private", holding the path alone; every
\* other registry entry stays as it was and the paths that were in the list
\* stay where they were, the new one after them.
C20_NoDuplicatePath ==
    /\ [](\A a, b \in 1..Len(appended) : a # b => appended[a] # appended[b])
    /\ [][C20_Step]_vars

\* three calls on a document with a remote registry only: the first made
\* the private entry, two calls appended a path each, one repeated a path
C20_Witness ==
    /\ pc = "add_to_registry"
    /\ adds = 3
    /\ Len(appended) = 2
    /\ registry_json = RegistryFile(<<RegistryEntry("pub1", "public", <<>>),
                                       RegistryEntry("private", "private", appended)>>)


\* one step of the process, seen from the schema cache
C21_Step ==
    /\ \A url \in DOMAIN schema_cache :
          /\ url \in DOMAIN schema_cache'
          /\ schema_cache'[url] = schema_cache[url]
    /\ gets' # gets =>
          /\ gets' = Append(gets, gets'[Len(gets')])
          /\ gets'[Len(gets')] \notin DOMAIN schema_cache
          /\ \A m \in 1..Len(returned) : returned[m].url # gets'[Len(gets')]
    /\ schema_cache' # schema_cache =>
          /\ pc = "get"
          /\ DOMAIN schema_cache' = DOMAIN schema_cache \cup {gets[Len(gets)]}
          /\ gets[Len(gets)] \notin DOMAIN schema_cache
          /\ returned' = Append(returned, [url |-> gets[Len(gets)],
                                           schema |-> schema_cache'[gets[Len(gets)]]])
    /\ (pc = "get" /\ returned' = returned) => schema_cache' = schema_cache

\* C21: the schema cache is filled at most once for a URL and never
\* invalidated. No step removes or changes an entry; an entry is added only
\* by a request for a URL that had none; once a call for a URL has returned,
\* no later call for that URL sends a request and every call for it returns
\* the same schema, the cached one, whatever the URL would serve now; a
\* request that fails leaves the cache as it was.
C21_CacheOnce ==
    /\ [](\A a, b \in 1..Len(returned) :
             returned[a].url = returned[b].url =>
                /\ returned[a].schema = returned[b].schema
                /\ returned[a].url \in DOMAIN schema_cache
                /\ schema_cache[returned[a].url] = returned[a].schema)
    /\ [][C21_Step]_vars

\* three descriptors name the same schema URL: the first request failed,
\* the second filled the cache, the third call was answered from the cache
C21_Witness ==
    /\ pc = "validated"
    /\ Len(validated) = 3
    /\ gets = <<"https://u1/server.schema.json", "https://u1/server.schema.json">>
    /\ Len(returned) = 2
    /\ returned[1] = returned[2]
    /\ DOMAIN schema_cache = {"https://u1/server.schema.json"}


\* the number of "/" in a text
RECURSIVE Slashes(_)
Slashes(text) ==
    IF text = <<>> THEN 0
    ELSE (IF Head(text) = "/" THEN 1 ELSE 0) + Slashes(Tail(text))

\* C22: fetch_server_version percent-encodes the server name as one path
\* segment. The url is the base without the "/" at its end, then
\* /v0.1/servers/, the encoded name, /versions/ and the version; the encoded
\* name holds no "/", so the part after the base has five separators
\* whatever the name; and no other name gives the same url with the same
\* base and version.
C22_OneSegment ==
    pc = "requested" =>
        \E base_url \in BaseUrls :
            LET base == rstrip_slash(base_url)
                path == SubSeq(version_url, Len(base) + 1, Len(version_url))
                encoded == SubSeq(path, 6, Len(path) - 4)
            IN /\ version_url = base \o path
               /\ (base = <<>> \/ base[Len(base)] # "/")
               /\ SubSeq(path, 1, 5) = <<"/", "v0.1", "/", "servers", "/">>
               /\ SubSeq(path, Len(path) - 3, Len(path)) =
                     <<"/", "versions", "/", req.version>>
               /\ Slashes(encoded) = 0
               /\ Slashes(path) = 5
               /\ Len(encoded) >= Len(req.name)
               /\ \A other \in SeqsUpTo(QuoteChars, MaxSegLen) :
                     other # req.name =>
                        VersionUrl(base_url, other, req.version) # version_url

\* the url of the name "a/a": the "/" of the name is "%2F" in it
C22_Witness ==
    /\ pc = "requested"
    /\ req.name = <<"a", "/", "a">>
    /\ version_url = <<"https:", "/", "/", "host", "/", "v0.1", "/", "servers", "/",
                       "a", "%", "2", "F", "a", "/", "versions", "/", "latest">>


\* C23: excluded servers are never in the results: whatever the form of the
\* servers rule, no entry collected or returned by
\* fetch_from_public_registry has a name of the registry's exclude list.
\* The wildcard pass (lines 131-150) does not look at exclude, so this fails
\* for a rule "a/*" and an excluded name "a/y" that the registry lists.
C23_ExcludedNeverReturned ==
    /\ \A m \in 1..Len(results) : results[m].name \notin reg.exclude
    /\ \A m \in 1..Len(all_servers) : all_servers[m].name \notin reg.exclude


\* C24: as the docstring of compile_registry states it, every fetch from a
\* public registry happens before any private server file is loaded (no
\* request is sent once a path of a private registry has been attempted),
\* then the conflicts are checked, then the result is returned. The code
\* walks the registries in declared order (lines 85-106), so a private
\* registry declared before a remote one is loaded before the fetch.
C24_FetchBeforeLoad ==
    [][/\ (pc' = "await" /\ pc # "await") => npaths = 0
       /\ (checked' /\ ~checked) => (pc = "walk" /\ pc' = "returned")]_vars

\* C25: when add_server returns a failure result, for an invalid name, a
\* missing URL, a missing command or an exception while the descriptor is
\* written or registry.json updated, the filesystem is unchanged: no
\* descriptor file has been created or overwritten and registry.json is as
\* it was. The descriptor is written (lines 190-197) before registry.json is
\* read (lines 199-203) and nothing is undone, so this fails when
\* add_to_registry raises.
C25_FailureLeavesFiles ==
    [][(pc # "added" /\ pc' = "added" /\ ~add_result'.success) =>
          (descriptors' = {} /\ registry_json' = registry_json)]_vars

\* the listed paths that gave an entry, and those that gave a load error
PathsLoaded ==
    {<<producers[x].pos, producers[x].ord>> :
        x \in {y \in 1..Len(producers) : origins[y] = "private"}}
PathsFailed ==
    {errors[x].what : x \in {y \in 1..Len(errors) : errors[y].kind = "load"}}

\* C26: every path listed in a private registry's servers_relative_path
\* gives exactly one thing to a compile_registry call that no fetch error
\* aborts: one entry appended to the concatenated list or one load error,
\* never both and never neither. While a registry is loaded, the paths
\* already attempted are those that gave something; when the walk is
\* between registries or over, entries and load errors together are as many
\* as the paths listed; and a successful result whose names are pairwise
\* distinct holds one entry for each listed path.
C26_OnePerPath ==
    LET private == {y \in 1..Len(producers) : origins[y] = "private"}
        loads == {y \in 1..Len(errors) : errors[y].kind = "load"}
    IN /\ PathsLoaded \cap PathsFailed = {}
       /\ Cardinality(private) = Cardinality(PathsLoaded)
       /\ Cardinality(loads) = Cardinality(PathsFailed)
       /\ pc = "load" =>
             \A m \in 1..Len(reg.servers_relative_path) :
                 m <= j <=> reg.servers_relative_path[m] \in PathsLoaded \cup PathsFailed
       /\ (pc \in {"walk", "returned", "exit"} /\ ~failed) =>
             Cardinality(PathsLoaded) + Cardinality(PathsFailed) = npaths
       /\ (pc \in {"returned", "exit"} /\ checked /\ is_success(errors)
              /\ \A a, b \in 1..Len(all_servers) :
                    a # b => all_servers[a].name # all_servers[b].name) =>
             /\ result_servers = all_servers
             /\ Cardinality(private) = npaths

\* a finished walk over two listed paths: one gave an entry, the other a
\* load error
C26_Witness ==
    /\ pc = "returned"
    /\ ~failed
    /\ npaths = 2
    /\ Cardinality(PathsLoaded) = 1
    /\ Cardinality(PathsFailed) = 1

\* the paths of the registries of type "private", in declared order
RECURSIVE PrivatePaths(_)
PrivatePaths(registries) ==
    IF registries = <<>> THEN <<>>
    ELSE (IF Head(registries).type = "private"
          THEN Head(registries).servers_relative_path
          ELSE <<>>) \o PrivatePaths(Tail(registries))

\* C27: validate_all gates the validation of the descriptors on
\* registry.json. A missing config.json gives no error, a missing
\* registry.json one 'File not found' error, malformed JSON in either one
\* 'Invalid JSON' error; these errors come first in the result. When
\* registry.json is missing, malformed or violates its schema, no descriptor
\* is validated, no schema is requested and the result holds these errors
\* only. Otherwise the paths of the registries of type "private" are
\* validated in declared order, all of them by the end, whatever config.json
\* gave; and the result is valid exactly when config.json and registry.json
\* gave no error and every descriptor is a JSON document with a "$schema"
\* that was fetched and that it satisfies.
C27_Gating ==
    LET config_errors ==
            IF config_json = "invalid_json"
            THEN <<VError("config.json", "", "Invalid JSON")>>
            ELSE IF config_json = "violates"
            THEN <<VError("config.json", "", "schema")>>
            ELSE <<>>
        registry_errors ==
            IF registry_json = NoFile
            THEN <<VError("registry.json", "", "File not found")>>
            ELSE IF registry_json = BadFile
            THEN <<VError("registry.json", "", "Invalid JSON")>>
            ELSE IF ~conforms THEN <<VError("registry.json", "", "schema")>>
            ELSE <<>>
        first == config_errors \o registry_errors
        clean ==
            /\ Len(gets) = Cardinality(DOMAIN schema_cache)
            /\ \A m \in 1..Len(validated) :
                  LET server_data == server_json[validated[m]]
                  IN /\ server_data.state = "json"
                     /\ server_data.schema_url \in DOMAIN schema_cache
                     /\ schema_cache[server_data.schema_url] \notin server_data.violates
    IN /\ pc # "validate_all" =>
             /\ Len(v_errors) >= Len(first)
             /\ SubSeq(v_errors, 1, Len(first)) = first
       /\ registry_errors # <<>> =>
             /\ validated = <<>>
             /\ gets = <<>>
             /\ returned = <<>>
             /\ pc \in {"validate_all", "validated"}
             /\ pc = "validated" => v_errors = first
       /\ registry_errors = <<>> =>
             /\ Len(validated) <= Len(PrivatePaths(registry_json.registries))
             /\ validated = SubSeq(PrivatePaths(registry_json.registries),
                                   1, Len(validated))
             /\ pc = "validated" =>
                   /\ validated = PrivatePaths(registry_json.registries)
                   /\ v_errors = <<>> <=> (config_errors = <<>> /\ clean)

\* registry.json violates its schema and lists private paths, config.json
\* is not JSON: validate_all returned the two errors and looked at no
\* descriptor
C27_Witness ==
    /\ pc = "validated"
    /\ config_json = "invalid_json"
    /\ registry_json.parses
    /\ ~conforms
    /\ Len(PrivatePaths(registry_json.registries)) = 3
    /\ validated = <<>>
    /\ Len(v_errors) = 2

\* the first and the last position of a name in a list of entries
FirstAt(servers, name) ==
    CHOOSE m \in 1..Len(servers) :
        /\ servers[m].name = name
        /\ \A q \in 1..(m - 1) : servers[q].name # name
LastAt(servers, name) ==
    CHOOSE m \in 1..Len(servers) :
        /\ servers[m].name = name
        /\ \A q \in (m + 1)..Len(servers) : servers[q].name # name

\* C28: the entries a successful compile_registry returns are in the order
\* of the FIRST occurrence of each name in the concatenated list, and each
\* is the LAST entry of its name: every name of the list is returned once,
\* an entry that overrides an earlier one stands where that one stood and
\* not at the end.
C28_FirstPlaceLastContent ==
    (pc \in {"returned", "exit"} /\ checked /\ is_success(errors)) =>
        /\ \A m \in 1..Len(all_servers) :
              \E a \in 1..Len(result_servers) :
                  result_servers[a].name = all_servers[m].name
        /\ \A a \in 1..Len(result_servers) :
              /\ \E m \in 1..Len(all_servers) :
                    all_servers[m].name = result_servers[a].name
              /\ result_servers[a] =
                    all_servers[LastAt(all_servers, result_servers[a].name)]
        /\ \A a, b \in 1..Len(result_servers) :
              a < b => FirstAt(all_servers, result_servers[a].name)
                         < FirstAt(all_servers, result_servers[b].name)

\* two names were collected from a first remote registry and the first of
\* them again from a second: the second registry's entry is returned, in
\* the first place
C28_Witness ==
    /\ pc = "returned"
    /\ is_success(errors)
    /\ Len(all_servers) = 3
    /\ Len(result_servers) = 2
    /\ all_servers[1].name = all_servers[3].name
    /\ all_servers[1].source # all_servers[3].source
    /\ result_servers[1] = all_servers[3]
    /\ result_servers[2] = all_servers[2]

\* the rule of the registry being fetched has a key that ends in "/*"
HasWildcardKey ==
    \E m \in 1..Len(reg.servers) : EndsWithSlashStar(reg.servers[m].key)

\* the exact-name requests a mapping without wildcard keys calls for among
\* its first n keys: one for each key that is not excluded
ExactSites(n) ==
    {<<"exact", m>> : m \in {q \in 1..n : reg.servers[q].key \notin reg.exclude}}

\* one step of a fetch, seen from the requests it sends
C29_Step ==
    /\ \A site \in issued' \ issued :
          /\ site[1] = "exact" =>
                /\ \A other \in issued : other[1] = "exact" => other[2] < site[2]
                /\ ~HasWildcardKey =>
                      /\ req'.name = reg.servers[site[2]].key
                      /\ req'.version = reg.servers[site[2]].version
          /\ site[1] = "list" => (reg.all \/ HasWildcardKey)
    /\ (pc = "exact" /\ pc' = "walk" /\ ~HasWildcardKey) =>
          issued = ExactSites(Len(reg.servers))

\* C29: the selection rule decides the kind of the requests of
\* fetch_from_public_registry. With servers == "*" only listing requests
\* are sent. With a mapping that has no key ending in "/*" no listing
\* request is sent, and the version requests are one for each exact key
\* that is not excluded, for that key and its version, in the order of the
\* mapping, all of them sent when the call returns. A listing request is
\* sent only for "*" or when a wildcard key exists.
C29_RequestKinds ==
    /\ []((pc \in {"list0", "list", "await", "exact"}) =>
            /\ reg.all =>
                  /\ \A site \in issued : site[1] = "list"
                  /\ req.kind \in {"none", "list"}
            /\ (~reg.all /\ ~HasWildcardKey) =>
                  /\ sent = <<>>
                  /\ stream = <<>>
                  /\ req.kind \in {"none", "exact"}
                  /\ issued = ExactSites(k)
            /\ (\E site \in issued : site[1] = "list") =>
                  (reg.all \/ HasWildcardKey))
    /\ [][C29_Step]_vars

\* a mapping of two exact names, the first of them excluded: both keys
\* have been taken, one version request was sent and no listing request
C29_Witness ==
    /\ pc = "exact"
    /\ ~reg.all
    /\ ~HasWildcardKey
    /\ reg.exclude = {NameAY}
    /\ Len(reg.servers) = 2
    /\ k = 2
    /\ issued = {<<"exact", 2>>}
    /\ Len(results) = 1
    /\ sent = <<>>

\* C30: the add command maps the outcome of the add operation to the exit
\* code: once cmd_add is over it has returned 0 and add_server reported
\* success, or it has returned 1 and add_server reported failure, whatever
\* the transport, the name and the url-or-command arguments. cmd_add passes
\* registry_name to add_server, which has no such parameter: the call raises
\* TypeError and cmd_add returns nothing.
C30_ExitCodeFollowsResult ==
    pc # "cmd_add" =>
        \/ exit_code = 0 /\ add_result.success
        \/ exit_code = 1 /\ ~add_result.success /\ add_result # NoResult

====
